---- MODULE Spec2Model ----
(***************************************************************************)
(* Request orchestration of the Adaptive Gaming Guide chat backend.        *)
(*                                                                         *)
(*   src/backend/app/main.py                                               *)
(*       FastAPI endpoints chat and chat_stream, with the refusal          *)
(*       escalation ladder (call_bedrock, call_bedrock again with          *)
(*       force_help, call_model_simple).                                   *)
(*   src/backend/infrastructure/cdk/lambda/ai-agent/handler.py             *)
(*       Lambda handler and handle_streaming_chat (canned greeting, one    *)
(*       retrieve-and-generate call, one session-less retry).              *)
(*                                                                         *)
(* Texts are TLA+ strings; strip, lower, split and substring search are    *)
(* computed character by character.  The generation provider is the        *)
(* environment: every outcome of a provider call is chosen                 *)
(* nondeterministically when the call returns.                             *)
(***************************************************************************)
EXTENDS Integers, Sequences, FiniteSets, TLC

VARIABLES
    env,              \* process environment: BEDROCK_KB_ID, BEDROCK_MODEL_ID, BEDROCK_MODEL_ARN
    account_id_cache, \* module global _account_id_cache of the Lambda handler
    served,           \* number of requests accepted so far by this process
    endpoint,         \* which entry point handles the current request
    req,              \* the request as received
    message,          \* local: stripped message
    language,         \* local: normalised language
    pc,               \* position of the handler of the current request
    attempt,          \* which call_bedrock invocation of chat is running (1 or 2), 3 = general fallback
    conversation_id,  \* local: conversation_id argument / variable of the running function
    force_help,       \* local: force_help argument of call_bedrock
    mode,             \* local: mode argument of call_model_simple
    calls,            \* provider calls issued for the current request, in order
    responses,        \* the provider's outcome of each returned call, in order
    result,           \* the {conversationId, reply} dict held by the handler
    status,           \* HTTP status of the response, 0 while none was sent
    error,            \* error text of the response body ("" when the response carries none)
    events,           \* body of the response as a sequence of SSE events (streaming endpoints)
    sts,              \* how sts.get_caller_identity answers while the current request is handled
    parked,           \* the locals of a second request in flight, while the other one runs
    probe,            \* a pure function applied to an argument, with its value (function harness)
    account_calls     \* the calls of get_account_id in progress, one per caller (cache harness)

vars == <<env, account_id_cache, served, sts, endpoint, req, message, language, pc, attempt,
          conversation_id, force_help, mode, calls, responses, result, status, error, events,
          sts, parked, probe, account_calls>>

----------------------------------------------------------------------------
(* Optional values: Python None is the empty tuple, a value x is <<x>>.    *)

None == <<>>

Some(x) == <<x>>

\* Python truthiness of an Optional[str]: None and "" are falsy.
Truthy(o) == o # None /\ o[1] # ""

----------------------------------------------------------------------------
(* Text primitives of the Python runtime.                                  *)

Whitespace == {" ", "\t", "\n", "\r", "\f"}

UpperChars == "ABCDEFGHIJKLMNOPQRSTUVWXYZÁÉÍÓÚÑÜ"

LowerChars == "abcdefghijklmnopqrstuvwxyzáéíóúñü"

LowerMap ==
    [c \in {SubSeq(UpperChars, i, i) : i \in 1..Len(UpperChars)} |->
        SubSeq(LowerChars, CHOOSE j \in 1..Len(UpperChars) : SubSeq(UpperChars, j, j) = c,
                           CHOOSE j \in 1..Len(UpperChars) : SubSeq(UpperChars, j, j) = c)]

lower_char(c) == IF c \in DOMAIN LowerMap THEN LowerMap[c] ELSE c

\* str.lower()
RECURSIVE lower(_)
lower(t) == IF t = "" THEN "" ELSE lower_char(Head(t)) \o lower(Tail(t))

RECURSIVE lstrip(_)
lstrip(t) == IF t # "" /\ Head(t) \in Whitespace THEN lstrip(Tail(t)) ELSE t

RECURSIVE rstrip(_)
rstrip(t) ==
    IF t # "" /\ SubSeq(t, Len(t), Len(t)) \in Whitespace
    THEN rstrip(SubSeq(t, 1, Len(t) - 1))
    ELSE t

\* str.strip()
strip(t) == rstrip(lstrip(t))

\* Python's `p in t` on strings.
Contains(t, p) == \E i \in 1..(Len(t) - Len(p) + 1) : SubSeq(t, i, i + Len(p) - 1) = p

\* str.startswith
StartsWith(t, p) == Len(p) <= Len(t) /\ SubSeq(t, 1, Len(p)) = p

\* Length of the leading run of non-whitespace characters of t.
RECURSIVE WordLen(_)
WordLen(t) == IF t = "" \/ Head(t) \in Whitespace THEN 0 ELSE 1 + WordLen(Tail(t))

\* str.split() with no argument: the maximal runs of non-whitespace characters.
RECURSIVE split(_)
split(t) ==
    LET s == lstrip(t)
        n == WordLen(s)
    IN  IF s = "" THEN <<>>
        ELSE <<SubSeq(s, 1, n)>> \o split(SubSeq(s, n + 1, Len(s)))

----------------------------------------------------------------------------
(* Pure functions of src/backend/app/main.py.  The templates are the       *)
(* source's texts; the en dash and the typographic apostrophe of the fixed *)
(* template lines are written - and ' (the module's strings are Latin-1).  *)

\* Values uuid.uuid4() can produce: fresh tokens, distinct from every id a caller
\* supplies or the provider assigns.
UUIDs == {"uuid-a"}

new_conversation_id == {Some(u) : u \in UUIDs}

\* `x or new_conversation_id()`: the ids this expression can evaluate to.
OrNewConversationId(x) == IF Truthy(x) THEN {x} ELSE new_conversation_id

GreetingSet ==
    {"hi", "hello", "hey", "good morning", "good afternoon", "good evening",
     "hola", "buenas", "buenos dias", "buenas tardes", "buenas noches"}

\* Variant: a message that starts with a greeting phrase is a greeting.
is_greeting_startswith(msg) ==
    LET cleaned == lower(strip(msg))
    IN  \E g \in GreetingSet : StartsWith(cleaned, g)

is_greeting(msg) ==
    LET cleaned == lower(strip(msg))
    IN  IF cleaned = "" THEN FALSE ELSE cleaned \in GreetingSet

refusal_guard(lang) ==
    IF lang = "es"
    THEN "Si la pregunta es un saludo o es general, responde con un saludo breve, "
         \o "una frase corta ofreciendo ayuda y una sola pregunta de orientación. "
         \o "No incluyas información técnica ni detalles de la base de conocimiento."
    ELSE "If the question is a greeting or general, respond with a brief greeting, "
         \o "one short offer of help, and one guiding question. Do not include technical details "
         \o "or knowledge-base content."

force_line(lang) ==
    IF lang = "es"
    THEN "Debes responder de forma útil incluso si la pregunta es vaga. "
         \o "No uses frases de rechazo."
    ELSE "You must provide a helpful response even if the question is vague. Avoid refusal language."

extra_policy(lang, fh) ==
    "\n" \o refusal_guard(lang) \o "\n" \o (IF fh THEN force_line(lang) \o "\n" ELSE "")

greeting_only(lang) ==
    IF lang = "es"
    THEN "Este es un saludo. Ignora el contenido de la base de conocimiento y responde "
         \o "solo con un saludo breve, una frase de ayuda y una pregunta concreta para orientar."
    ELSE "This is a greeting. Ignore knowledge-base content and respond only with a brief "
         \o "greeting, one helpful line, and one concrete guiding question."

build_prompt(msg, lang, fh, md) ==
    IF lang = "es"
    THEN "IMPORTANTE: Debes responder ÚNICAMENTE en español. Si el contenido de referencia está en inglés, tradúcelo antes de responder. No incluyas texto en inglés.\n"
         \o "\n"
         \o "Usa la base de conocimiento como fuente principal. Si la base no contiene suficiente información, ofrece orientación general breve y pide un detalle adicional. Nunca te niegues ni digas que no puedes ayudar.\n"
         \o "La respuesta debe ser clara, bien redactada y breve (máximo 4-6 líneas).\n"
         \o "No incluyas \"Action:\", \"Response:\", ni texto de sistema. No uses Markdown (sin **, #, ni código). Texto plano.\n"
         \o "Si el usuario solo saluda o hace una pregunta muy general, responde solo con un saludo breve, una frase de ayuda y una pregunta concreta para guiar el tema. No incluyas contenido de la base de conocimiento en saludos.\n"
         \o "Evita frases como \"no puedo ayudar\", \"no tengo información\" o \"no estoy autorizado\".\n"
         \o extra_policy(lang, fh) \o "\n"
         \o (IF md = "greeting" THEN greeting_only(lang) ELSE "") \o "\n"
         \o "\n"
         \o "Formato requerido (usa exactamente estos encabezados):\n"
         \o "Resumen:\n"
         \o "- 1-2 puntos breves.\n"
         \o "Recomendaciones:\n"
         \o "- 2-3 viñetas concretas y accionables.\n"
         \o "Siguientes preguntas:\n"
         \o "- 2 viñetas relacionadas con la pregunta del usuario.\n"
         \o "\n"
         \o "Pregunta del usuario: " \o msg \o "\n"
         \o "\n"
         \o "Responde completamente en español."
    ELSE "IMPORTANT: You must respond ONLY in English. If any reference content is in another language, translate it before responding.\n"
         \o "\n"
         \o "Use the knowledge base as your primary source. If the KB lacks enough info, provide brief general guidance and ask one clarifying question. Never refuse or say you cannot help.\n"
         \o "The response must be well-written and concise (max 4-6 lines).\n"
         \o "Do not include \"Action:\", \"Response:\", or any system text. Do not use Markdown (no **, #, or code). Plain text only.\n"
         \o "If the user only greets or asks a very general question, respond only with a brief friendly greeting, one helpful sentence, and a concrete guiding question. Do not include knowledge-base content in greetings.\n"
         \o "Avoid phrases like \"unable to assist\", \"cannot help\", or \"no information available\".\n"
         \o extra_policy(lang, fh) \o "\n"
         \o (IF md = "greeting" THEN greeting_only(lang) ELSE "") \o "\n"
         \o "\n"
         \o "Required format (use these exact headings):\n"
         \o "Summary:\n"
         \o "- 1-2 brief points.\n"
         \o "Recommendations:\n"
         \o "- 2-3 concrete, actionable bullets.\n"
         \o "Next questions:\n"
         \o "- 2 bullets related to the user's question.\n"
         \o "\n"
         \o "User question: " \o msg \o "\n"
         \o "\n"
         \o "Respond completely in English."

build_greeting_prompt(msg, lang) ==
    IF lang = "es"
    THEN "Responde SOLO con un saludo breve, una frase corta explicando que eres la Guía de Juegos Adaptativos y una pregunta concreta para orientar.\n"
         \o "Usa exactamente este formato y texto plano, sin Markdown.\n"
         \o "\n"
         \o "Resumen:\n"
         \o "Hola, soy tu Guía de Juegos Adaptativos.\n"
         \o "Recomendaciones:\n"
         \o "Puedo ayudarte con recomendaciones y configuración de juegos adaptativos.\n"
         \o "Siguientes preguntas:\n"
         \o "¿Qué tipo de jugador o paciente quieres apoyar?\n"
         \o "¿Qué consola o juego estás usando?\n"
         \o "\n"
         \o "Mensaje del usuario: " \o msg \o "\n"
    ELSE "Respond ONLY with a brief greeting, one short line explaining this is the Adaptive Gaming Guide, and one concrete guiding question.\n"
         \o "Use this exact format and plain text only, no Markdown.\n"
         \o "\n"
         \o "Summary:\n"
         \o "Hello, I'm your Adaptive Gaming Guide.\n"
         \o "Recommendations:\n"
         \o "I can help with adaptive gaming recommendations and setup guidance.\n"
         \o "Next questions:\n"
         \o "What type of player or patient are you supporting?\n"
         \o "Which console or game are you working with?\n"
         \o "\n"
         \o "User message: " \o msg \o "\n"

\* Variant: the general fallback prompt is the English one whatever the language.
build_general_fallback_prompt_english(msg, lang) ==
    "Provide a helpful, concise response even if the knowledge base lacks details.\n"
    \o "Use the required format and plain text only, no Markdown.\n"
    \o "\n"
    \o "Summary:\n"
    \o "- 1-2 clear, brief points.\n"
    \o "Recommendations:\n"
    \o "- 2-3 concrete bullets.\n"
    \o "Next questions:\n"
    \o "- 2 bullets related to the user's question.\n"
    \o "\n"
    \o "User question: " \o msg \o "\n"

build_general_fallback_prompt(msg, lang) ==
    IF lang = "es"
    THEN "Responde de forma útil y breve incluso si la base de conocimiento es insuficiente.\n"
         \o "Usa el formato requerido y texto plano, sin Markdown.\n"
         \o "\n"
         \o "Resumen:\n"
         \o "- 1-2 puntos claros y breves.\n"
         \o "Recomendaciones:\n"
         \o "- 2-3 viñetas concretas.\n"
         \o "Siguientes preguntas:\n"
         \o "- 2 viñetas relacionadas con la pregunta del usuario.\n"
         \o "\n"
         \o "Pregunta del usuario: " \o msg \o "\n"
    ELSE "Provide a helpful, concise response even if the knowledge base lacks details.\n"
         \o "Use the required format and plain text only, no Markdown.\n"
         \o "\n"
         \o "Summary:\n"
         \o "- 1-2 clear, brief points.\n"
         \o "Recommendations:\n"
         \o "- 2-3 concrete bullets.\n"
         \o "Next questions:\n"
         \o "- 2 bullets related to the user's question.\n"
         \o "\n"
         \o "User question: " \o msg \o "\n"

RefusalPatterns ==
    {"unable to assist", "cannot assist", "can't assist", "cannot help", "can't help",
     "sorry, i am unable", "no puedo ayudar", "no puedo asist", "no tengo información"}

\* Variant: the phrases are searched in the text as written.
looks_like_refusal_as_written(text) == \E pattern \in RefusalPatterns : Contains(text, pattern)

looks_like_refusal(text) ==
    LET lowered == lower(text)
    IN  \E pattern \in RefusalPatterns : Contains(lowered, pattern)

\* Canned reply of call_model_simple.
canned_greeting(lang) == IF lang = "es" THEN "Hola, ¿en qué puedo ayudarte?" ELSE "Hi! How can I help?"

\* Echo reply of call_bedrock.
echo_reply(msg, lang) == IF lang = "es" THEN "Dijiste: " \o msg ELSE "You said: " \o msg

\* Substitute of call_bedrock for a falsy output text.
no_answer(lang) == IF lang = "es" THEN "No tengo respuesta." ELSE "No answer."

\* An SSE event: its name, and the conversationId (meta) or text (delta) of its data.
Event(name, cid, text) == [event |-> name, conversationId |-> cid, text |-> text]

delta_events(words) == [i \in 1..Len(words) |-> Event("delta", None, words[i] \o " ")]

stream_reply(reply, cid) ==
    <<Event("meta", cid, "")>> \o delta_events(split(reply)) \o <<Event("done", None, "")>>

----------------------------------------------------------------------------
(* Inputs: the environment of the process, the requests, and the outcomes  *)
(* of the provider's operations.                                           *)

\* Number of requests one process serves in a checked behaviour.
MaxRequests == 2

KbIds == {"", "KB1"}

ModelIds == {"", "anthropic.claude-3-haiku", "us.anthropic.claude-3-5-sonnet"}

ModelArnOverrides == {"", "arn:aws:bedrock:us-east-1:111122223333:inference-profile/custom"}

\* AWS_REGION of the process (also the default of os.getenv("AWS_REGION", "us-east-1")).
Region == "us-east-1"

Messages ==
    {"  ", " Hola\n", "hello there", "I cannot help my son play"}

\* The "message" member of a request body: absent (or not a string), or a string.
PayloadMessages == {None} \cup {Some(m) : m \in Messages}

\* payload.get("message") if isinstance(payload.get("message"), str) else "";
\* (req.message or "") in main.py.
message_of(raw) == IF raw = None THEN "" ELSE raw[1]

Languages == {"en", "es"}

\* conversationId of a request: absent, empty, or a token of an earlier session.
CallerIds == {None, Some(""), Some("sess-1")}

\* res["output"]["text"] of retrieve_and_generate, content[0]["text"] of invoke_model.
OutputTexts ==
    {None, Some(""), Some(" \n"), Some("Use an adaptive controller."),
     Some("Sorry, I am unable to assist with that.")}

\* res["sessionId"] of retrieve_and_generate.
SessionIds == {None, Some("sess-1"), Some("sess-2")}

\* No function of the harness has been applied.
NoProbe ==
    [fn |-> "", text |-> "", language |-> "", force_help |-> FALSE, mode |-> "",
     conversationId |-> None, value |-> <<>>]

\* Outcome of a provider call.  kind is "ok", "invalid_session" (ClientError /
\* ValidationException whose text holds "Session with Id" and "is not valid"),
\* "client_error" (any other ClientError) or "error" (any other exception).  text is
\* the output text of a call that returned, str(exc) of a call that raised.
Outcome(kind, text, sid) == [kind |-> kind, text |-> text, sessionId |-> sid]

\* Exceptions a provider call can raise: the class, and the text str(exc) gives.
\* ValidationException is a ClientError; ReadTimeoutError is not.
Exceptions ==
    {[class |-> "ValidationException",
      text |-> "An error occurred (ValidationException) when calling the RetrieveAndGenerate operation: Session with Id sess-1 is not valid. Please check and try again."],
     [class |-> "ValidationException",
      text |-> "An error occurred (ValidationException) when calling the RetrieveAndGenerate operation: Session with Id sess-1 has expired."],
     [class |-> "ValidationException",
      text |-> "An error occurred (ValidationException) when calling the RetrieveAndGenerate operation: The provided model identifier is not valid."],
     [class |-> "ReadTimeoutError",
      text |-> "Read timeout on endpoint URL: https://bedrock-agent-runtime.us-east-1.amazonaws.com/retrieveAndGenerate"]}

\* Variant: one of the two phrases is enough.
is_invalid_session_either(message_text) ==
    Contains(message_text, "Session with Id") \/ Contains(message_text, "is not valid")

\* "Session with Id" in message_text and "is not valid" in message_text
is_invalid_session(message_text) ==
    Contains(message_text, "Session with Id") /\ Contains(message_text, "is not valid")

\* Which except clause, and which branch of it, an exception takes.
error_kind(exc) ==
    IF exc.class = "ValidationException"
    THEN IF is_invalid_session(exc.text) THEN "invalid_session" ELSE "client_error"
    ELSE "error"

\* The outcomes of a call that raised, by the branch they take.
Raises(kind) == {Outcome(kind, Some(exc.text), None) : exc \in {e \in Exceptions : error_kind(e) = kind}}

Call(op, prompt, arn, sid) == [op |-> op, prompt |-> prompt, modelArn |-> arn, sessionId |-> sid]

----------------------------------------------------------------------------
(* src/backend/app/main.py: chat and chat_stream.                          *)

\* The values of endpoint, req, message, language, pc, attempt, conversation_id,
\* force_help, mode, calls, responses, result, status, error, events and sts when no
\* request is being handled.
IdleLocals ==
    <<"", [message |-> None, conversationId |-> None, language |-> "en"], "", "en", "idle", 0,
      None, FALSE, "", <<>>, <<>>, None, 0, "", <<>>, "unasked">>

\* Callers of get_account_id whose calls may be in progress at once.
MaxCallers == 2

Callers == 1..MaxCallers

\* A caller outside get_account_id.  pc is the statement the call is at, has_context
\* the argument, cached_on_entry whether the cache held an id when the call began,
\* wrote whether the call assigned the cache, sts the answer of get_caller_identity
\* and value the value returned.
NoCall ==
    [pc |-> "out", has_context |-> FALSE, cached_on_entry |-> FALSE, wrote |-> FALSE,
     sts |-> "unasked", value |-> None]

\* No request has been received: the module global is unset and there are no locals.
Fresh ==
    /\ account_id_cache = None
    /\ account_calls = [c \in Callers |-> NoCall]
    /\ served = 0
    /\ endpoint = ""
    /\ req = [message |-> None, conversationId |-> None, language |-> "en"]
    /\ message = ""
    /\ language = "en"
    /\ pc = "idle"
    /\ attempt = 0
    /\ conversation_id = None
    /\ force_help = FALSE
    /\ mode = ""
    /\ calls = <<>>
    /\ responses = <<>>
    /\ result = None
    /\ status = 0
    /\ error = ""
    /\ events = <<>>
    /\ sts = "unasked"
    /\ parked = IdleLocals

Init ==
    /\ env \in [kb_id : KbIds, model_id : ModelIds, model_arn : ModelArnOverrides]
    /\ Fresh
    /\ probe = NoProbe

\* A new request starts from fresh locals.
Accept(ep, raw, cid, lang) ==
    /\ pc = "idle"
    /\ served < MaxRequests
    /\ served' = served + 1
    /\ endpoint' = ep
    /\ req' = [message |-> raw, conversationId |-> cid, language |-> lang]
    /\ message' = strip(message_of(raw))
    /\ language' = IF lang = "es" THEN "es" ELSE "en"
    /\ conversation_id' = cid
    /\ force_help' = FALSE
    /\ responses' = <<>>
    /\ UNCHANGED <<account_calls, probe, parked, env>>

\* return JSONResponse(content=result) / StreamingResponse(stream_reply(...))
Return(res) ==
    /\ result' = Some(res)
    /\ status' = 200
    /\ error' = ""
    /\ events' = IF endpoint = "chat_stream" THEN stream_reply(res.reply, res.conversationId) ELSE <<>>
    /\ pc' = "done"

\* An exception leaves the endpoint: the framework answers 500.
Raise ==
    /\ status' = 500
    /\ error' = "Internal Server Error"
    /\ events' = <<>>
    /\ pc' = "done"
    /\ UNCHANGED result

\* Variant: chat without the check of lines 328-329.
chat_entry_unvalidated(ep, m, cid, lang) ==
    /\ Accept(ep, Some(m), cid, lang)
    /\ sts' = "unasked"
    /\ calls' = <<>>
    /\ result' = None
    /\ events' = <<>>
    /\ UNCHANGED account_id_cache
    /\ status' = 0
    /\ error' = ""
    /\ IF is_greeting(strip(m))
       THEN /\ pc' = "call_model_simple"
            /\ mode' = "greeting"
            /\ attempt' = 0
       ELSE /\ pc' = "call_bedrock"
            /\ mode' = "default"
            /\ attempt' = 1

\* Variant: a greeting is sent to call_bedrock with mode="greeting".
chat_entry_greeting_by_kb(ep, m, cid, lang) ==
    /\ Accept(ep, Some(m), cid, lang)
    /\ sts' = "unasked"
    /\ calls' = <<>>
    /\ result' = None
    /\ events' = <<>>
    /\ UNCHANGED account_id_cache
    /\ IF strip(m) = ""
       THEN /\ status' = 400
            /\ error' = "'message' is required."
            /\ pc' = "done"
            /\ attempt' = 0
            /\ mode' = ""
       ELSE /\ status' = 0
            /\ error' = ""
            /\ pc' = "call_bedrock"
            /\ mode' = IF is_greeting(strip(m)) THEN "greeting" ELSE "default"
            /\ attempt' = 1

\* Lines 327-341 (chat) and 352-366 (chat_stream): validation, classification and
\* the choice of the first call.
chat_entry(ep, m, cid, lang) ==
    /\ Accept(ep, Some(m), cid, lang)
    /\ sts' = "unasked"
    /\ calls' = <<>>
    /\ result' = None
    /\ events' = <<>>
    /\ UNCHANGED account_id_cache
    /\ IF strip(m) = ""
       THEN /\ status' = 400
            /\ error' = "'message' is required."
            /\ pc' = "done"
            /\ attempt' = 0
            /\ mode' = ""
       ELSE /\ status' = 0
            /\ error' = ""
            /\ IF is_greeting(strip(m))
               THEN /\ pc' = "call_model_simple"
                    /\ mode' = "greeting"
                    /\ attempt' = 0
               ELSE /\ pc' = "call_bedrock"
                    /\ mode' = "default"
                    /\ attempt' = 1

chat == \E m \in Messages, cid \in CallerIds, lang \in Languages : chat_entry("chat", m, cid, lang)

chat_stream ==
    \E m \in Messages, cid \in CallerIds, lang \in Languages : chat_entry("chat_stream", m, cid, lang)

\* model_arn_override or f"arn:aws:bedrock:{region}::foundation-model/{model_id}"
main_model_arn ==
    IF env.model_arn # "" THEN env.model_arn
    ELSE "arn:aws:bedrock:" \o Region \o "::foundation-model/" \o env.model_id

\* Variant: the message is kept in a module-level variable, so call_bedrock builds its
\* prompt from the message of the request accepted last.
call_bedrock_shared_message ==
    /\ pc = "call_bedrock"
    /\ IF env.kb_id = "" \/ env.model_id = ""
       THEN /\ \E id \in OrNewConversationId(conversation_id) :
                 result' = Some([conversationId |-> id, reply |-> echo_reply(message, language)])
            /\ pc' = "refusal_check"
            /\ UNCHANGED calls
       ELSE /\ calls' = Append(calls,
                     Call("retrieve_and_generate",
                          build_prompt(IF parked[5] # "idle" THEN parked[3] ELSE message,
                                       language, force_help, mode),
                          main_model_arn,
                          IF Truthy(conversation_id) THEN conversation_id ELSE None))
            /\ pc' = "rag_wait"
            /\ UNCHANGED result
    /\ UNCHANGED <<account_calls, probe, parked, env, account_id_cache, served, sts, endpoint, req, message, language, attempt, conversation_id,
                   force_help, mode, responses, status, error, events>>

\* call_bedrock, lines 235-273: the echo fallback, or the first retrieve_and_generate.
call_bedrock ==
    /\ pc = "call_bedrock"
    /\ IF env.kb_id = "" \/ env.model_id = ""
       THEN /\ \E id \in OrNewConversationId(conversation_id) :
                 result' = Some([conversationId |-> id, reply |-> echo_reply(message, language)])
            /\ pc' = "refusal_check"
            /\ UNCHANGED calls
       ELSE /\ calls' = Append(calls,
                     Call("retrieve_and_generate",
                          build_prompt(message, language, force_help, mode),
                          main_model_arn,
                          IF Truthy(conversation_id) THEN conversation_id ELSE None))
            /\ pc' = "rag_wait"
            /\ UNCHANGED result
    /\ UNCHANGED <<account_calls, probe, parked, env, account_id_cache, served, sts, endpoint, req, message, language, attempt, conversation_id,
                   force_help, mode, responses, status, error, events>>

\* call_bedrock, lines 286-290: the result built from a response res.
bedrock_result(text, sid, id) ==
    [conversationId |-> id,
     reply |-> IF Truthy(text) THEN text[1] ELSE no_answer(language)]

\* Variant: the caller's id wins over the id of the response.
session_id_of_caller_first(sid, cid) ==
    IF Truthy(cid) THEN {cid} ELSE OrNewConversationId(sid)

\* res.get("sessionId") or conversation_id or new_conversation_id()
session_id_of(sid, cid) == IF Truthy(sid) THEN {sid} ELSE OrNewConversationId(cid)

\* call_bedrock, lines 272-290: the first retrieve_and_generate returns or raises.
\* The provider raises the invalid-session error only for a request that carries a
\* sessionId.
retrieve_and_generate_returns ==
    /\ pc = "rag_wait"
    /\ \/ \E text \in OutputTexts, sid \in SessionIds :
            /\ responses' = Append(responses, Outcome("ok", text, sid))
            /\ \E id \in session_id_of(sid, conversation_id) :
                 result' = Some(bedrock_result(text, sid, id))
            /\ pc' = "refusal_check"
            /\ UNCHANGED <<calls, status, error, events>>
       \/ /\ Truthy(calls[Len(calls)].sessionId)
          /\ \E o \in Raises("invalid_session") : responses' = Append(responses, o)
          /\ calls' = Append(calls, [calls[Len(calls)] EXCEPT !.sessionId = None])
          /\ pc' = "rag_retry_wait"
          /\ UNCHANGED <<result, status, error, events>>
       \/ /\ \E o \in Raises("client_error") : responses' = Append(responses, o)
          /\ Raise
          /\ UNCHANGED calls
       \/ /\ \E o \in Raises("error") : responses' = Append(responses, o)
          /\ \E id \in OrNewConversationId(conversation_id) :
               result' = Some([conversationId |-> id, reply |-> echo_reply(message, language)])
          /\ pc' = "refusal_check"
          /\ UNCHANGED <<calls, status, error, events>>
    /\ UNCHANGED <<account_calls, probe, parked, env, account_id_cache, served, sts, endpoint, req, message, language, attempt, conversation_id,
                   force_help, mode>>

\* call_bedrock, lines 277-290: the session-less retry returns, or raises out of the
\* except clause.  The provider does not hand out the session id it has just rejected.
retry_returns ==
    /\ pc = "rag_retry_wait"
    /\ \/ \E text \in OutputTexts, sid \in SessionIds \ {conversation_id} :
            /\ responses' = Append(responses, Outcome("ok", text, sid))
            /\ \E id \in session_id_of(sid, conversation_id) :
                 result' = Some(bedrock_result(text, sid, id))
            /\ pc' = "refusal_check"
            /\ UNCHANGED <<status, error, events>>
       \/ \E kind \in {"client_error", "error"} :
            /\ \E o \in Raises(kind) : responses' = Append(responses, o)
            /\ Raise
    /\ UNCHANGED <<account_calls, probe, parked, env, account_id_cache, served, sts, endpoint, req, message, language, attempt, conversation_id,
                   force_help, mode, calls>>

\* Variant: a third retrieve-and-generate tier before the general fallback.
refusal_check_extra_tier ==
    /\ pc = "refusal_check"
    /\ IF looks_like_refusal(result[1].reply)
       THEN IF attempt \in {1, 2}
            THEN /\ pc' = "call_bedrock"
                 /\ attempt' = attempt + 1
                 /\ conversation_id' = None
                 /\ force_help' = TRUE
                 /\ mode' = "default"
                 /\ UNCHANGED <<result, status, error, events>>
            ELSE /\ pc' = "call_model_simple"
                 /\ attempt' = 4
                 /\ mode' = "general"
                 /\ UNCHANGED <<conversation_id, force_help, result, status, error, events>>
       ELSE /\ Return(result[1])
            /\ UNCHANGED <<attempt, conversation_id, force_help, mode>>
    /\ UNCHANGED <<account_calls, probe, parked, env, account_id_cache, served, sts, endpoint, req, message, language, calls, responses>>

\* Variant: the result of the second call_bedrock is returned unchecked.
refusal_check_single ==
    /\ pc = "refusal_check"
    /\ IF looks_like_refusal(result[1].reply) /\ attempt = 1
       THEN /\ pc' = "call_bedrock"
            /\ attempt' = 2
            /\ conversation_id' = None
            /\ force_help' = TRUE
            /\ mode' = "default"
            /\ UNCHANGED <<result, status, error, events>>
       ELSE /\ Return(result[1])
            /\ UNCHANGED <<attempt, conversation_id, force_help, mode>>
    /\ UNCHANGED <<account_calls, probe, parked, env, account_id_cache, served, sts, endpoint, req, message, language, calls, responses>>

\* Variant: the second call_bedrock continues the session of the refused result.
refusal_check_keeps_session ==
    /\ pc = "refusal_check"
    /\ IF looks_like_refusal(result[1].reply)
       THEN IF attempt = 1
            THEN /\ pc' = "call_bedrock"
                 /\ attempt' = 2
                 /\ conversation_id' = result[1].conversationId
                 /\ force_help' = TRUE
                 /\ mode' = "default"
                 /\ UNCHANGED <<result, status, error, events>>
            ELSE /\ pc' = "call_model_simple"
                 /\ attempt' = 3
                 /\ mode' = "general"
                 /\ UNCHANGED <<conversation_id, force_help, result, status, error, events>>
       ELSE /\ Return(result[1])
            /\ UNCHANGED <<attempt, conversation_id, force_help, mode>>
    /\ UNCHANGED <<account_calls, probe, parked, env, account_id_cache, served, sts, endpoint, req, message, language, calls, responses>>

\* Variant: a refused second call_bedrock starts the ladder again at its first tier.
refusal_check_revisits ==
    /\ pc = "refusal_check"
    /\ IF looks_like_refusal(result[1].reply)
       THEN /\ pc' = "call_bedrock"
            /\ attempt' = IF attempt = 1 THEN 2 ELSE 1
            /\ conversation_id' = None
            /\ force_help' = (attempt = 1)
            /\ mode' = "default"
            /\ UNCHANGED <<result, status, error, events>>
       ELSE /\ Return(result[1])
            /\ UNCHANGED <<attempt, conversation_id, force_help, mode>>
    /\ UNCHANGED <<account_calls, probe, parked, env, account_id_cache, served, sts, endpoint, req, message, language, calls, responses>>

\* Variant: the second call_bedrock is made whatever the first one returned.
refusal_check_ungated ==
    /\ pc = "refusal_check"
    /\ IF attempt = 1
       THEN /\ pc' = "call_bedrock"
            /\ attempt' = 2
            /\ conversation_id' = None
            /\ force_help' = TRUE
            /\ mode' = "default"
            /\ UNCHANGED <<result, status, error, events>>
       ELSE IF looks_like_refusal(result[1].reply)
       THEN /\ pc' = "call_model_simple"
            /\ attempt' = 3
            /\ mode' = "general"
            /\ UNCHANGED <<conversation_id, force_help, result, status, error, events>>
       ELSE /\ Return(result[1])
            /\ UNCHANGED <<attempt, conversation_id, force_help, mode>>
    /\ UNCHANGED <<account_calls, probe, parked, env, account_id_cache, served, sts, endpoint, req, message, language, calls, responses>>

\* chat, lines 342-346: the refusal check on the result of call_bedrock.
refusal_check ==
    /\ pc = "refusal_check"
    /\ IF looks_like_refusal(result[1].reply)
       THEN IF attempt = 1
            THEN /\ pc' = "call_bedrock"
                 /\ attempt' = 2
                 /\ conversation_id' = None
                 /\ force_help' = TRUE
                 /\ mode' = "default"
                 /\ UNCHANGED <<result, status, error, events>>
            ELSE /\ pc' = "call_model_simple"
                 /\ attempt' = 3
                 /\ mode' = "general"
                 /\ UNCHANGED <<conversation_id, force_help, result, status, error, events>>
       ELSE /\ Return(result[1])
            /\ UNCHANGED <<attempt, conversation_id, force_help, mode>>
    /\ UNCHANGED <<account_calls, probe, parked, env, account_id_cache, served, sts, endpoint, req, message, language, calls, responses>>

\* os.getenv("BEDROCK_MODEL_ARN", "") or os.getenv("BEDROCK_MODEL_ID", "")
simple_model_id == IF env.model_arn # "" THEN env.model_arn ELSE env.model_id

\* call_model_simple, lines 195-212: the canned reply without a model, or invoke_model.
call_model_simple ==
    /\ pc = "call_model_simple"
    /\ IF simple_model_id = ""
       THEN /\ Return([conversationId |-> None, reply |-> canned_greeting(language)])
            /\ UNCHANGED calls
       ELSE /\ calls' = Append(calls,
                     Call("invoke_model",
                          IF mode = "greeting" THEN build_greeting_prompt(message, language)
                          ELSE build_general_fallback_prompt(message, language),
                          simple_model_id,
                          None))
            /\ pc' = "invoke_wait"
            /\ UNCHANGED <<result, status, error, events>>
    /\ UNCHANGED <<account_calls, probe, parked, env, account_id_cache, served, sts, endpoint, req, message, language, attempt, conversation_id,
                   force_help, mode, responses>>

\* Variant: a direct-model reply that reads like a refusal is replaced by the canned reply.
simple_reply_checked(text) ==
    IF text # None /\ strip(text[1]) # "" /\ ~looks_like_refusal(text[1])
    THEN strip(text[1]) ELSE canned_greeting(language)

\* call_model_simple, lines 218-221: text.strip() or the canned reply.
simple_reply(text) ==
    IF text # None /\ strip(text[1]) # "" THEN strip(text[1]) ELSE canned_greeting(language)

\* Variant: an exception of invoke_model leaves call_model_simple.
invoke_model_returns_raising ==
    /\ pc = "invoke_wait"
    /\ \/ \E text \in OutputTexts :
            /\ responses' = Append(responses, Outcome("ok", text, None))
            /\ Return([conversationId |-> None, reply |-> simple_reply(text)])
       \/ \E kind \in {"client_error", "error"} :
            /\ \E o \in Raises(kind) : responses' = Append(responses, o)
            /\ Raise
    /\ UNCHANGED <<account_calls, probe, parked, env, account_id_cache, served, sts, endpoint, req, message, language, attempt, conversation_id,
                   force_help, mode, calls>>

\* call_model_simple, lines 212-225: invoke_model returns or raises.
invoke_model_returns ==
    /\ pc = "invoke_wait"
    /\ \/ \E text \in OutputTexts :
            /\ responses' = Append(responses, Outcome("ok", text, None))
            /\ Return([conversationId |-> None, reply |-> simple_reply(text)])
       \/ \E kind \in {"client_error", "error"} :
            /\ \E o \in Raises(kind) : responses' = Append(responses, o)
            /\ Return([conversationId |-> None, reply |-> canned_greeting(language)])
    /\ UNCHANGED <<account_calls, probe, parked, env, account_id_cache, served, sts, endpoint, req, message, language, attempt, conversation_id,
                   force_help, mode, calls>>

----------------------------------------------------------------------------
(* src/backend/infrastructure/cdk/lambda/ai-agent/handler.py: handler and  *)
(* handle_streaming_chat.                                                  *)

LambdaGreetings ==
    {"hi", "hello", "hey", "hola", "buenos dias", "buenas tardes",
     "good morning", "good afternoon", "good evening", "greetings",
     "howdy", "what's up", "whats up", "sup"}

lambda_is_greeting(msg) ==
    LET msg_lower == strip(lower(msg))
    IN  IF Len(msg_lower) < 20
        THEN \E greeting \in LambdaGreetings : Contains(msg_lower, greeting)
        ELSE FALSE

get_greeting_response(lang) ==
    IF lang = "es"
    THEN "¡Hola! Soy tu guía de juegos adaptativos. Estoy aquí para ayudarte a hacer que los videojuegos sean accesibles para personas con diferentes habilidades físicas.\n"
         \o "\n"
         \o "Puedo ayudarte con:\n"
         \o "- Seleccionar controladores adaptativos apropiados\n"
         \o "- Configurar equipos de juego accesibles\n"
         \o "- Encontrar juegos compatibles con tecnologías de asistencia\n"
         \o "- Optimizar configuraciones para necesidades específicas de movilidad\n"
         \o "- Conectar controladores a diferentes consolas\n"
         \o "\n"
         \o "¿En qué puedo ayudarte hoy?"
    ELSE "Hello! I'm your Adaptive Gaming Guide. I'm here to help you make video games accessible for people with varying physical abilities.\n"
         \o "\n"
         \o "I can assist you with:\n"
         \o "- Selecting appropriate adaptive controllers\n"
         \o "- Setting up accessible gaming equipment\n"
         \o "- Finding games compatible with assistive technologies\n"
         \o "- Optimizing setups for specific mobility needs\n"
         \o "- Connecting controllers to different consoles\n"
         \o "\n"
         \o "What can I help you with today?"

lambda_build_prompt(msg, lang) ==
    IF lang = "es"
    THEN "IMPORTANTE: Debes responder ÚNICAMENTE en español de manera profesional y amigable. Si el contenido de referencia está en inglés, tradúcelo al español antes de responder.\n"
         \o "\n"
         \o "Eres un experto en juegos adaptativos y accesibilidad. Tu objetivo es proporcionar orientación clara, práctica y empática para hacer que los videojuegos sean accesibles.\n"
         \o "\n"
         \o "INSTRUCCIONES:\n"
         \o "1. Usa la base de conocimiento como fuente principal de información\n"
         \o "2. Proporciona respuestas detalladas pero concisas\n"
         \o "3. Sé específico con nombres de productos, técnicas y pasos cuando sea posible\n"
         \o "4. Si la información es limitada, ofrece orientación general y haz preguntas de seguimiento relevantes\n"
         \o "5. Mantén un tono profesional pero cálido y accesible\n"
         \o "6. No uses Markdown. Solo texto plano con viñetas simples usando guiones (-)\n"
         \o "\n"
         \o "FORMATO OBLIGATORIO - DEBES USAR EXACTAMENTE ESTA ESTRUCTURA:\n"
         \o "\n"
         \o "Resumen:\n"
         \o "- [Punto clave 1 que responde directamente a la pregunta]\n"
         \o "- [Punto clave 2 con información específica y práctica]\n"
         \o "- [Punto clave 3 si es relevante]\n"
         \o "\n"
         \o "Recomendaciones:\n"
         \o "- [Recomendación concreta y accionable 1]\n"
         \o "- [Recomendación concreta y accionable 2]\n"
         \o "- [Recomendación concreta y accionable 3]\n"
         \o "- [Recomendación concreta y accionable 4 si es relevante]\n"
         \o "\n"
         \o "Siguientes preguntas:\n"
         \o "- [Pregunta de seguimiento relevante 1]\n"
         \o "- [Pregunta de seguimiento relevante 2]\n"
         \o "\n"
         \o "Pregunta del usuario: " \o msg \o "\n"
         \o "\n"
         \o "RECUERDA: Debes usar EXACTAMENTE los encabezados \"Resumen:\", \"Recomendaciones:\", y \"Siguientes preguntas:\" seguidos de viñetas con guiones. No omitas ninguna sección."
    ELSE "IMPORTANT: You must respond ONLY in English in a professional and friendly manner. If reference content is in another language, translate it to English before responding.\n"
         \o "\n"
         \o "You are an expert in adaptive gaming and accessibility. Your goal is to provide clear, practical, and empathetic guidance to make video games accessible.\n"
         \o "\n"
         \o "INSTRUCTIONS:\n"
         \o "1. Use the knowledge base as your primary source of information\n"
         \o "2. Provide detailed but concise responses\n"
         \o "3. Be specific with product names, techniques, and steps when possible\n"
         \o "4. If information is limited, offer general guidance and ask relevant follow-up questions\n"
         \o "5. Maintain a professional yet warm and approachable tone\n"
         \o "6. Do not use Markdown. Plain text only with simple bullet points using dashes (-)\n"
         \o "\n"
         \o "MANDATORY FORMAT - YOU MUST USE EXACTLY THIS STRUCTURE:\n"
         \o "\n"
         \o "Summary:\n"
         \o "- [Key point 1 that directly answers the question]\n"
         \o "- [Key point 2 with specific and practical information]\n"
         \o "- [Key point 3 if relevant]\n"
         \o "\n"
         \o "Recommendations:\n"
         \o "- [Concrete and actionable recommendation 1]\n"
         \o "- [Concrete and actionable recommendation 2]\n"
         \o "- [Concrete and actionable recommendation 3]\n"
         \o "- [Concrete and actionable recommendation 4 if relevant]\n"
         \o "\n"
         \o "Next questions:\n"
         \o "- [Relevant follow-up question 1]\n"
         \o "- [Relevant follow-up question 2]\n"
         \o "\n"
         \o "User question: " \o msg \o "\n"
         \o "\n"
         \o "REMEMBER: You MUST use EXACTLY the headings \"Summary:\", \"Recommendations:\", and \"Next questions:\" followed by bullet points with dashes. Do not omit any section."

\* Account of the function: field 4 of context.invoked_function_arn, and the Account
\* of sts.get_caller_identity().
AccountId == "111122223333"

\* get_account_id: the pair <<returned value, cache afterwards>>.  A cached id is
\* returned as it is.  Otherwise, with a Lambda context the id is read off the function
\* ARN; without one STS is asked (caller_identity is its answer, "ok" or "failed"), and
\* a failed lookup returns "" and leaves the cache alone.
get_account_id(has_context, caller_identity) ==
    IF Truthy(account_id_cache) THEN <<account_id_cache[1], account_id_cache>>
    ELSE IF has_context \/ caller_identity = "ok" THEN <<AccountId, Some(AccountId)>>
    ELSE <<"", account_id_cache>>

get_model_arn(model_id, region, account_id, model_arn_override) ==
    IF model_arn_override # "" THEN model_arn_override
    ELSE IF StartsWith(model_id, "us.") \/ StartsWith(model_id, "global.")
         THEN "arn:aws:bedrock:" \o region \o ":" \o account_id \o ":inference-profile/" \o model_id
         ELSE "arn:aws:bedrock:" \o region \o "::foundation-model/" \o model_id

\* The words of a reply as SSE events, lines 302-309: a meta event and one delta event
\* per word.
sse_events(reply, cid) == <<Event("meta", cid, "")>> \o delta_events(split(reply))

\* A 200 response carrying {conversationId, reply}: json_response(200, ...) of handler,
\* the text/event-stream body of handle_streaming_chat.
lambda_return(ep, res) ==
    /\ result' = Some(res)
    /\ status' = 200
    /\ error' = ""
    /\ events' = IF ep = "handle_streaming_chat"
                 THEN sse_events(res.reply, res.conversationId) ELSE <<>>
    /\ pc' = "done"

\* Variant: the error response carries str(exc).
lambda_fail_leaking ==
    /\ IF endpoint = "handle_streaming_chat"
       THEN /\ status' = 200
            /\ error' = responses'[Len(responses')].text[1]
            /\ events' = <<Event("error", None, responses'[Len(responses')].text[1])>>
       ELSE /\ status' = 500
            /\ error' = "Bedrock request failed: " \o responses'[Len(responses')].text[1]
            /\ events' = <<>>
    /\ pc' = "done"
    /\ UNCHANGED result

\* The except clauses: json_response(500, ...) of handler, the error event of
\* handle_streaming_chat (sent with statusCode 200).
lambda_fail ==
    /\ IF endpoint = "handle_streaming_chat"
       THEN /\ status' = 200
            /\ error' = "Streaming failed"
            /\ events' = <<Event("error", None, "Streaming failed")>>
       ELSE /\ status' = 500
            /\ error' = "Bedrock request failed."
            /\ events' = <<>>
    /\ pc' = "done"
    /\ UNCHANGED result

\* handler lines 194-246 and handle_streaming_chat lines 285-371: validation, canned
\* greeting, echo fallback, or the first retrieve_and_generate.  handler passes its
\* Lambda context and the ARN override on; handle_streaming_chat passes neither.
lambda_entry(ep, raw, cid, lang) ==
    LET m == message_of(raw) IN
    /\ Accept(ep, raw, cid, lang)
    /\ attempt' = IF strip(m) = "" \/ lambda_is_greeting(strip(m)) THEN 0 ELSE 1
    /\ mode' = ""
    /\ IF strip(m) = ""
       THEN /\ status' = 400
            /\ error' = "'message' is required."
            /\ pc' = "done"
            /\ result' = None
            /\ events' = <<>>
            /\ calls' = <<>>
            /\ sts' = "unasked"
            /\ UNCHANGED account_id_cache
       ELSE IF lambda_is_greeting(strip(m))
       THEN /\ \E id \in OrNewConversationId(cid) :
                 lambda_return(ep, [conversationId |-> id, reply |-> get_greeting_response(language')])
            /\ calls' = <<>>
            /\ sts' = "unasked"
            /\ UNCHANGED account_id_cache
       ELSE IF env.kb_id = "" \/ env.model_id = ""
       THEN /\ \E id \in OrNewConversationId(cid) :
                 lambda_return(ep, [conversationId |-> id, reply |-> echo_reply(strip(m), language')])
            /\ calls' = <<>>
            /\ sts' = "unasked"
            /\ UNCHANGED account_id_cache
       ELSE \E caller_identity \in (IF ep = "handler" THEN {"unasked"} ELSE {"ok", "failed"}) :
              LET acct == get_account_id(ep = "handler", caller_identity) IN
              /\ sts' = caller_identity
              /\ account_id_cache' = acct[2]
              /\ calls' = <<Call("retrieve_and_generate",
                                 lambda_build_prompt(strip(m), language'),
                                 get_model_arn(env.model_id, Region, acct[1],
                                               IF ep = "handler" THEN env.model_arn ELSE ""),
                                 IF Truthy(cid) THEN cid ELSE None)>>
              /\ pc' = "lambda_rag_wait"
              /\ status' = 0
              /\ error' = ""
              /\ result' = None
              /\ events' = <<>>

handler ==
    \E raw \in PayloadMessages, cid \in CallerIds, lang \in Languages :
        lambda_entry("handler", raw, cid, lang)

handle_streaming_chat ==
    \E raw \in PayloadMessages, cid \in CallerIds, lang \in Languages :
        lambda_entry("handle_streaming_chat", raw, cid, lang)

\* handler lines 246-280, handle_streaming_chat lines 371-471: the first
\* retrieve_and_generate returns or raises.
lambda_retrieve_and_generate_returns ==
    /\ pc = "lambda_rag_wait"
    /\ \/ \E text \in OutputTexts, sid \in SessionIds :
            /\ responses' = Append(responses, Outcome("ok", text, sid))
            /\ \E id \in session_id_of(sid, conversation_id) :
                 lambda_return(endpoint, bedrock_result(text, sid, id))
            /\ UNCHANGED calls
       \/ /\ Truthy(calls[Len(calls)].sessionId)
          /\ \E o \in Raises("invalid_session") : responses' = Append(responses, o)
          /\ calls' = Append(calls, [calls[Len(calls)] EXCEPT !.sessionId = None])
          /\ pc' = "lambda_retry_wait"
          /\ UNCHANGED <<result, status, error, events>>
       \/ \E kind \in {"client_error", "error"} :
            /\ \E o \in Raises(kind) : responses' = Append(responses, o)
            /\ lambda_fail
            /\ UNCHANGED calls
    /\ UNCHANGED <<account_calls, probe, parked, env, account_id_cache, served, sts, endpoint, req, message, language, attempt,
                   conversation_id, force_help, mode>>

\* handler lines 268-275, handle_streaming_chat lines 415-448: the session-less retry
\* returns or raises.  session_id = res.get("sessionId") or str(uuid.uuid4()).
lambda_retry_returns ==
    /\ pc = "lambda_retry_wait"
    /\ \/ \E text \in OutputTexts, sid \in SessionIds \ {conversation_id} :
            /\ responses' = Append(responses, Outcome("ok", text, sid))
            /\ \E id \in OrNewConversationId(sid) :
                 lambda_return(endpoint, bedrock_result(text, sid, id))
       \/ \E kind \in {"client_error", "error"} :
            /\ \E o \in Raises(kind) : responses' = Append(responses, o)
            /\ lambda_fail
    /\ UNCHANGED <<account_calls, probe, parked, env, account_id_cache, served, sts, endpoint, req, message, language, attempt,
                   conversation_id, force_help, mode, calls>>

----------------------------------------------------------------------------
(* src/infrastructure/cdk/lambda/ai-agent/handler.py: the earlier Lambda   *)
(* handler and handle_streaming_chat (no greeting path, no retry).         *)

infra_build_prompt(msg, lang) ==
    IF lang = "es"
    THEN "IMPORTANTE: Debes responder ÚNICAMENTE en español, sin importar el idioma de la pregunta o del contenido de referencia. Si el contenido de referencia está en inglés, tradúcelo al español antes de responder. NUNCA incluyas texto en inglés en tu respuesta.\n"
         \o "\n"
         \o "Usa la base de conocimiento como fuente principal. Si la base no contiene suficiente información, ofrece orientación general breve y pide un detalle adicional. No digas \"no puedo ayudar\".\n"
         \o "Mantén la respuesta corta y precisa (máximo 6-8 líneas).\n"
         \o "No incluyas \"Action:\", \"Response:\", ni texto de sistema. No uses Markdown (sin **, #, ni código). Texto plano.\n"
         \o "\n"
         \o "Formato requerido (usa exactamente estos encabezados):\n"
         \o "Resumen:\n"
         \o "- 1-2 puntos breves.\n"
         \o "Recomendaciones:\n"
         \o "- 2-4 viñetas concretas.\n"
         \o "Siguientes preguntas:\n"
         \o "- 1-2 viñetas.\n"
         \o "\n"
         \o "Pregunta del usuario: " \o msg \o "\n"
         \o "\n"
         \o "Responde completamente en español."
    ELSE "IMPORTANT: You must respond ONLY in English. If any reference content is in another language, translate it to English before responding.\n"
         \o "\n"
         \o "Use the knowledge base as your primary source. If the KB lacks enough info, provide brief general guidance and ask one clarifying question. Do not say you cannot help.\n"
         \o "Keep the response short and precise (max 6-8 lines).\n"
         \o "Do not include \"Action:\", \"Response:\", or any system text. Do not use Markdown (no **, #, or code). Plain text only.\n"
         \o "\n"
         \o "Required format (use these exact headings):\n"
         \o "Summary:\n"
         \o "- 1-2 brief points.\n"
         \o "Recommendations:\n"
         \o "- 2-4 concrete bullets.\n"
         \o "Next questions:\n"
         \o "- 1-2 bullets.\n"
         \o "\n"
         \o "User question: " \o msg \o "\n"
         \o "\n"
         \o "Respond completely in English."

\* handle_streaming_chat lines 202-208 (and 159-166): a meta event and one delta event
\* per word.
infra_sse_events(reply, cid) == <<Event("meta", cid, "")>> \o delta_events(split(reply))

\* A 200 response carrying {conversationId, reply}: json_response(200, ...) of handler,
\* the text/event-stream body of handle_streaming_chat.
infra_return(ep, res) ==
    /\ result' = Some(res)
    /\ status' = 200
    /\ error' = ""
    /\ events' = IF ep = "infra_handle_streaming_chat"
                 THEN infra_sse_events(res.reply, res.conversationId) ELSE <<>>
    /\ pc' = "done"

\* except Exception: json_response(500, ...) of handler, the error event of
\* handle_streaming_chat (sent with statusCode 200).
infra_fail(ep) ==
    /\ IF ep = "infra_handle_streaming_chat"
       THEN /\ status' = 200
            /\ error' = "Streaming failed"
            /\ events' = <<Event("error", None, "Streaming failed")>>
       ELSE /\ status' = 500
            /\ error' = "Bedrock request failed."
            /\ events' = <<>>
    /\ pc' = "done"

\* handler lines 88-128 and handle_streaming_chat lines 140-196: validation, echo
\* fallback, or the retrieve_and_generate call.  The call passes
\* sessionId=conversation_id whatever its value: for None or "" the client library
\* refuses the parameters inside the try block and no request is sent.
\* handle_streaming_chat does not read the ARN override.
infra_entry(ep, raw, cid, lang) ==
    LET m == message_of(raw) IN
    /\ Accept(ep, raw, cid, lang)
    /\ mode' = ""
    /\ sts' = "unasked"
    /\ calls' = IF strip(m) # "" /\ env.kb_id # "" /\ env.model_id # "" /\ Truthy(cid)
                THEN <<Call("retrieve_and_generate",
                            infra_build_prompt(strip(m), language'),
                            IF ep = "infra_handler" /\ env.model_arn # "" THEN env.model_arn
                            ELSE "arn:aws:bedrock:" \o Region \o "::foundation-model/" \o env.model_id,
                            cid)>>
                ELSE <<>>
    /\ UNCHANGED account_id_cache
    /\ IF strip(m) = ""
       THEN /\ status' = 400
            /\ error' = "'message' is required."
            /\ pc' = "done"
            /\ attempt' = 0
            /\ result' = None
            /\ events' = <<>>
       ELSE IF env.kb_id = "" \/ env.model_id = ""
       THEN /\ attempt' = 0
            /\ \E id \in OrNewConversationId(cid) :
                 infra_return(ep, [conversationId |-> id, reply |-> echo_reply(strip(m), language')])
       ELSE IF ~Truthy(cid)
       THEN /\ attempt' = 1
            /\ result' = None
            /\ infra_fail(ep)
       ELSE /\ attempt' = 1
            /\ pc' = "infra_rag_wait"
            /\ status' = 0
            /\ error' = ""
            /\ result' = None
            /\ events' = <<>>

infra_handler ==
    \E raw \in PayloadMessages, cid \in CallerIds, lang \in Languages :
        infra_entry("infra_handler", raw, cid, lang)

infra_handle_streaming_chat ==
    \E raw \in PayloadMessages, cid \in CallerIds, lang \in Languages :
        infra_entry("infra_handle_streaming_chat", raw, cid, lang)

\* handler lines 129-135, handle_streaming_chat lines 198-234: retrieve_and_generate
\* returns, or raises any exception.
infra_retrieve_and_generate_returns ==
    /\ pc = "infra_rag_wait"
    /\ \/ \E text \in OutputTexts, sid \in SessionIds :
            /\ responses' = Append(responses, Outcome("ok", text, sid))
            /\ \E id \in session_id_of(sid, conversation_id) :
                 infra_return(endpoint, bedrock_result(text, sid, id))
       \/ \E kind \in {"invalid_session", "client_error", "error"} :
            /\ \E o \in Raises(kind) : responses' = Append(responses, o)
            /\ infra_fail(endpoint)
            /\ UNCHANGED result
    /\ UNCHANGED <<account_calls, probe, parked, env, account_id_cache, served, sts, endpoint, req, message, language, attempt,
                   conversation_id, force_help, mode, calls>>

\* The endpoint function has returned: its locals are gone and the process waits for
\* the next request.
handler_exit ==
    /\ pc = "done"
    /\ pc' = "idle"
    /\ endpoint' = ""
    /\ req' = [message |-> None, conversationId |-> None, language |-> "en"]
    /\ message' = ""
    /\ language' = "en"
    /\ attempt' = 0
    /\ conversation_id' = None
    /\ force_help' = FALSE
    /\ mode' = ""
    /\ calls' = <<>>
    /\ responses' = <<>>
    /\ result' = None
    /\ status' = 0
    /\ error' = ""
    /\ events' = <<>>
    /\ sts' = "unasked"
    /\ UNCHANGED <<account_calls, probe, parked, env, account_id_cache, served>>

Next ==
    \/ chat
    \/ chat_stream
    \/ call_bedrock
    \/ retrieve_and_generate_returns
    \/ retry_returns
    \/ refusal_check
    \/ call_model_simple
    \/ invoke_model_returns
    \/ handler
    \/ handle_streaming_chat
    \/ lambda_retrieve_and_generate_returns
    \/ lambda_retry_returns
    \/ infra_handler
    \/ infra_handle_streaming_chat
    \/ infra_retrieve_and_generate_returns
    \/ handler_exit

Spec == Init /\ [][Next]_vars

\* The steps of a request that has been accepted: the handler runs on to its return,
\* and a provider call that was issued returns or raises.
Progress ==
    \/ call_bedrock
    \/ retrieve_and_generate_returns
    \/ retry_returns
    \/ refusal_check
    \/ call_model_simple
    \/ invoke_model_returns
    \/ lambda_retrieve_and_generate_returns
    \/ lambda_retry_returns
    \/ infra_retrieve_and_generate_returns
    \/ handler_exit

\* The positions of a handler.
Positions ==
    {"idle", "call_bedrock", "rag_wait", "rag_retry_wait", "refusal_check",
     "call_model_simple", "invoke_wait", "lambda_rag_wait", "lambda_retry_wait",
     "infra_rag_wait", "done"}

\* The handler of the current request leaves its position.  Under [][Next]_vars the
\* steps that do so are the steps of Progress, and at every position but idle one of
\* them is possible.
Advance == pc # "idle" /\ pc' \in Positions \ {pc}

\* What the scheduling guarantees: Python runs an entered handler on to its return,
\* and every provider call that was issued eventually returns or raises.  Nothing
\* obliges a client to send a request.
LiveSpec == Init /\ [][Next]_vars /\ WF_pc(Advance)

----------------------------------------------------------------------------
(* The pure functions of the three sources, each applied to one argument   *)
(* drawn from FnTexts: the classifiers, the refusal detector, the prompt   *)
(* builders and the event generators, as their callers apply them.         *)

UpperMap ==
    [c \in {SubSeq(LowerChars, i, i) : i \in 1..Len(LowerChars)} |->
        SubSeq(UpperChars, CHOOSE j \in 1..Len(LowerChars) : SubSeq(LowerChars, j, j) = c,
                           CHOOSE j \in 1..Len(LowerChars) : SubSeq(LowerChars, j, j) = c)]

\* str.upper(), used to write the phrases in capitals.
RECURSIVE upper(_)
upper(t) ==
    IF t = "" THEN ""
    ELSE (IF Head(t) \in DOMAIN UpperMap THEN UpperMap[Head(t)] ELSE Head(t)) \o upper(Tail(t))

\* Every phrase the classifiers and the detector know, in lower case and in
\* capitals, and texts that hold none of them or hold one inside a word.
FnCores ==
    LET phrases == GreetingSet \cup LambdaGreetings \cup RefusalPatterns
    IN  phrases \cup {upper(p) : p \in phrases}
        \cup {"", "chip", "Which controller  works\nfor one hand?",
              "Summary:\n- Use a switch.\n\nNext questions:\n- Which console?",
              "I Can't Assist you, {message} \"quoted\" \\n"}

FnPrefixes == {"", " \t", "Well, "}

FnSuffixes == {"", " \n", " there", " there, how are you today?"}

FnTexts == {pre \o core \o suf : pre \in FnPrefixes, core \in FnCores, suf \in FnSuffixes}

FnInit ==
    /\ env = [kb_id |-> "", model_id |-> "", model_arn |-> ""]
    /\ Fresh
    /\ probe \in {[NoProbe EXCEPT !.text = t] : t \in FnTexts}

\* The function named fn was applied and returned value.
Applied(fn, lang, fh, md, cid, value) ==
    /\ probe.fn = ""
    /\ probe' = [probe EXCEPT !.fn = fn, !.language = lang, !.force_help = fh, !.mode = md,
                              !.conversationId = cid, !.value = value]
    /\ UNCHANGED <<account_calls, env, account_id_cache, served, sts, parked, endpoint, req, message, language,
                   pc, attempt, conversation_id, force_help, mode, calls, responses, result,
                   status, error, events>>

\* main.py line 330: greeting = is_greeting(message), message stripped at line 327.
apply_is_greeting ==
    /\ strip(probe.text) # ""
    /\ Applied("is_greeting", "", FALSE, "", None, is_greeting(strip(probe.text)))

\* backend handler.py line 208: is_greeting(message), message stripped at line 200.
apply_lambda_is_greeting ==
    /\ strip(probe.text) # ""
    /\ Applied("lambda_is_greeting", "", FALSE, "", None, lambda_is_greeting(strip(probe.text)))

\* main.py line 342: looks_like_refusal(result["reply"]).
apply_looks_like_refusal ==
    Applied("looks_like_refusal", "", FALSE, "", None, looks_like_refusal(probe.text))

\* main.py line 241: build_prompt(message, language, force_help=..., mode=...).
apply_build_prompt ==
    /\ strip(probe.text) # ""
    /\ \E lang \in Languages, fh \in BOOLEAN, md \in {"default", "greeting"} :
         Applied("build_prompt", lang, fh, md, None, build_prompt(strip(probe.text), lang, fh, md))

\* main.py lines 200-204: the prompt of call_model_simple for its mode.
apply_build_simple_prompt ==
    /\ strip(probe.text) # ""
    /\ \E lang \in Languages :
         \/ Applied("build_greeting_prompt", lang, FALSE, "greeting", None,
                    build_greeting_prompt(strip(probe.text), lang))
         \/ Applied("build_general_fallback_prompt", lang, FALSE, "general", None,
                    build_general_fallback_prompt(strip(probe.text), lang))

\* backend handler.py line 233 and earlier handler.py line 110: build_prompt(message,
\* language).
apply_lambda_build_prompt ==
    /\ strip(probe.text) # ""
    /\ \E lang \in Languages :
         \/ Applied("lambda_build_prompt", lang, FALSE, "default", None,
                    lambda_build_prompt(strip(probe.text), lang))
         \/ Applied("infra_build_prompt", lang, FALSE, "default", None,
                    infra_build_prompt(strip(probe.text), lang))

\* main.py line 373: stream_reply(result["reply"], result.get("conversationId")).
apply_stream_reply ==
    \E cid \in {None, Some("sess-1")} :
        Applied("stream_reply", "", FALSE, "", cid, stream_reply(probe.text, cid))

\* backend handler.py lines 376-383 and earlier handler.py lines 202-208: the events
\* of handle_streaming_chat for a reply.
apply_sse_events ==
    \/ Applied("sse_events", "", FALSE, "", Some("sess-1"), sse_events(probe.text, Some("sess-1")))
    \/ Applied("infra_sse_events", "", FALSE, "", Some("sess-1"),
               infra_sse_events(probe.text, Some("sess-1")))

FnNext ==
    \/ apply_is_greeting
    \/ apply_lambda_is_greeting
    \/ apply_looks_like_refusal
    \/ apply_build_prompt
    \/ apply_build_simple_prompt
    \/ apply_lambda_build_prompt
    \/ apply_stream_reply
    \/ apply_sse_events

FnSpec == FnInit /\ [][FnNext]_vars

----------------------------------------------------------------------------
(* Two requests in flight.  chat and chat_stream are plain functions that  *)
(* the framework runs on worker threads, so a second request can be        *)
(* accepted and make steps while the first waits for the provider.  The    *)
(* locals of the request that is not running are kept in parked; switch    *)
(* hands the processor to the other request.  env and account_id_cache     *)
(* belong to the process and are seen by both.  A Lambda execution         *)
(* environment handles one invocation at a time: its requests follow one   *)
(* another and share the module global.                                    *)

Locals ==
    <<endpoint, req, message, language, pc, attempt, conversation_id, force_help, mode, calls,
      responses, result, status, error, events, sts>>

switch ==
    /\ endpoint \in {"", "chat", "chat_stream"}
    /\ parked[1] \in {"", "chat", "chat_stream"}
    /\ parked # Locals
    /\ parked' = Locals
    /\ endpoint' = parked[1]
    /\ req' = parked[2]
    /\ message' = parked[3]
    /\ language' = parked[4]
    /\ pc' = parked[5]
    /\ attempt' = parked[6]
    /\ conversation_id' = parked[7]
    /\ force_help' = parked[8]
    /\ mode' = parked[9]
    /\ calls' = parked[10]
    /\ responses' = parked[11]
    /\ result' = parked[12]
    /\ status' = parked[13]
    /\ error' = parked[14]
    /\ events' = parked[15]
    /\ sts' = parked[16]
    /\ UNCHANGED <<account_calls, probe, env, account_id_cache, served>>

ConcMessages == {" Hola\n", "I cannot help my son play"}

ConcCallerIds == {Some("sess-1")}

ConcInit ==
    /\ env = [kb_id |-> "KB1", model_id |-> "us.anthropic.claude-3-5-sonnet", model_arn |-> ""]
    /\ Fresh
    /\ probe = NoProbe

conc_chat ==
    \E m \in ConcMessages, cid \in ConcCallerIds : chat_entry("chat", m, cid, "en")

conc_handler ==
    \E ep \in {"handler", "handle_streaming_chat"}, m \in ConcMessages, cid \in ConcCallerIds :
        lambda_entry(ep, Some(m), cid, "en")

ConcNext ==
    \/ conc_chat
    \/ conc_handler
    \/ switch
    \/ call_bedrock
    \/ retrieve_and_generate_returns
    \/ retry_returns
    \/ refusal_check
    \/ call_model_simple
    \/ invoke_model_returns
    \/ lambda_retrieve_and_generate_returns
    \/ lambda_retry_returns
    \/ handler_exit

ConcSpec == ConcInit /\ [][ConcNext]_vars

----------------------------------------------------------------------------
(* Properties.  A state with pc = "done" shows the response of the current *)
(* request together with the provider calls it made and their outcomes.    *)

Main == endpoint \in {"chat", "chat_stream"}

Lambda == endpoint \in {"handler", "handle_streaming_chat"}

Infra == endpoint \in {"infra_handler", "infra_handle_streaming_chat"}

Streaming == endpoint \in {"chat_stream", "handle_streaming_chat", "infra_handle_streaming_chat"}

\* Classification of the current request by the module that serves it (the earlier
\* Lambda handler has no classifier: every message is substantive).
Greeting ==
    /\ message # ""
    /\ \/ Main /\ is_greeting(message)
       \/ Lambda /\ lambda_is_greeting(message)

Substantive == message # "" /\ ~Greeting

Configured == env.kb_id # "" /\ env.model_id # ""

Done == pc = "done"

\* The request ended with a normal {conversationId, reply} result.
Answered == pc = "done" /\ status = 200 /\ error = "" /\ result # None

\* The i-th provider call returned a text the refusal detector matches.
RefusedAt(i) ==
    /\ i <= Len(responses)
    /\ responses[i].kind = "ok"
    /\ Truthy(responses[i].text)
    /\ looks_like_refusal(responses[i].text[1])

\* The i-th provider call returned a response whose reply is not a refusal.
AcceptedAt(i) ==
    /\ i <= Len(responses)
    /\ responses[i].kind = "ok"
    /\ ~(Truthy(responses[i].text) /\ looks_like_refusal(responses[i].text[1]))

Failed(i) == i <= Len(responses) /\ responses[i].kind \in {"client_error", "error"}

Rejected(i) == i <= Len(responses) /\ responses[i].kind = "invalid_session"

Ops == [i \in 1..Len(calls) |-> calls[i].op]

\* C1: chat / chat_stream, knowledge base and model configured, no provider error:
\* when the first and the second retrieve-and-generate reply both match the refusal
\* detector, the calls are retrieve-and-generate, retrieve-and-generate, invoke_model
\* and nothing more, and the request ends with the direct-model text (stripped, or
\* the canned line when blank) as its reply, refusal or not.
C1_TwoRefusalsThenDirectModel ==
    (Main /\ Substantive /\ Configured /\ RefusedAt(1) /\ RefusedAt(2))
    => /\ Len(calls) <= 3
       /\ SubSeq(Ops, 1, 2) = <<"retrieve_and_generate", "retrieve_and_generate">>
       /\ Len(calls) = 3 => calls[3].op = "invoke_model"
       /\ Done => /\ Len(calls) = 3
                  /\ Len(responses) = 3
                  /\ status = 200
                  /\ responses[3].kind = "ok" =>
                        result[1].reply =
                            IF Truthy(responses[3].text) /\ strip(responses[3].text[1]) # ""
                            THEN strip(responses[3].text[1])
                            ELSE canned_greeting(language)

\* C1 witness: two refused retrieve-and-generate replies, then a direct-model reply
\* that itself reads like a refusal and is the reply returned.
C1_Witness ==
    /\ Answered /\ Main /\ Configured
    /\ RefusedAt(1) /\ RefusedAt(2) /\ RefusedAt(3)
    /\ Len(calls) = 3
    /\ looks_like_refusal(result[1].reply)

\* C2: when the first retrieve-and-generate call succeeds with a reply the refusal
\* detector does not match, that call is the only provider call of the request and
\* the conversationId returned is the session id of its response (when it has one).
C2_OneCallAndProviderSession ==
    (Substantive /\ Configured /\ AcceptedAt(1))
    => /\ Len(calls) = 1
       /\ Done => /\ Answered
                  /\ Truthy(responses[1].sessionId) =>
                        result[1].conversationId = responses[1].sessionId

\* C2 witness: one accepted call whose response carries a session id other than the
\* caller's, and that id is returned.
C2_Witness ==
    /\ Answered /\ Main /\ Configured /\ AcceptedAt(1)
    /\ Truthy(req.conversationId)
    /\ Truthy(responses[1].sessionId)
    /\ responses[1].sessionId # req.conversationId
    /\ result[1].conversationId = responses[1].sessionId

\* C3 (as claimed): at most 3 provider calls for a substantive message, at most 1 for
\* a greeting, whatever the provider does.
C3_AtMostThreeCalls ==
    /\ Substantive => Len(calls) <= 3
    /\ Greeting => Len(calls) <= 1

\* C3 (amended): at most 3 provider calls for a substantive message when no call is
\* rejected as an invalid session, at most 4 otherwise (the session-less retry is one
\* more call, and only the first call can be rejected); at most 1 for a greeting.
C3_AtMostFourCalls ==
    /\ Substantive => /\ Len(calls) <= 4
                      /\ (\A i \in 1..Len(responses) : ~Rejected(i)) => Len(calls) <= 3
                      /\ \A i \in 2..Len(responses) : ~Rejected(i)
    /\ Greeting => Len(calls) <= 1

\* C3 witness: a request that made four provider calls.
C3_Witness == Answered /\ Substantive /\ Len(calls) = 4 /\ Rejected(1)

\* C4 (as claimed): the reply returned for a substantive request never matches the
\* refusal detector.
C4_NoRefusalReturned ==
    (Answered /\ Main /\ Substantive) => ~looks_like_refusal(result[1].reply)

\* C4 (amended): in chat / chat_stream a reply that matches the refusal detector is
\* never returned out of call_bedrock; a returned reply matches the detector only
\* when it is the text of the final direct-model call, which is returned unchecked.
C4_RefusalOnlyFromDirectModel ==
    (Answered /\ Main /\ Substantive /\ looks_like_refusal(result[1].reply))
    => /\ attempt = 3
       /\ calls # <<>>
       /\ calls[Len(calls)].op = "invoke_model"
       /\ Len(responses) = Len(calls)
       /\ RefusedAt(Len(responses))
       /\ result[1].reply = strip(responses[Len(responses)].text[1])

\* C4 witness: a refusal text returned after the general fallback.
C4_Witness ==
    /\ Answered /\ Main /\ Substantive
    /\ looks_like_refusal(result[1].reply)
    /\ attempt = 3

\* C5 (as claimed): every result has a reply that is not blank, for every provider
\* output, a missing, empty or whitespace-only output text included.
C5_ReplyNeverBlank == Answered => strip(result[1].reply) # ""

\* C6 (as claimed): every result carries a conversationId that is not null.
C6_ConversationIdPresent == Answered => result[1].conversationId # None

\* C7 (as claimed): when a provider call of a substantive request fails, the request
\* still ends with a normal {conversationId, reply} result.
C7_FailureStillAnswered ==
    (Done /\ Substantive /\ \E i \in 1..Len(responses) : Failed(i)) => Answered

\* C8 (as claimed): after an invalid-session rejection the call is repeated once
\* without the session token, and the conversationId returned differs from the
\* rejected one.
C8_RejectedIdNotReturned ==
    Rejected(1)
    => /\ Len(calls) >= 2
       /\ calls[2] = [calls[1] EXCEPT !.sessionId = None]
       /\ Answered => result[1].conversationId # calls[1].sessionId

\* C9 (as claimed): a request whose session was rejected as invalid ends with a
\* normal result, whatever the outcome of the session-less retry.
C9_RejectionNeverAnError == (Done /\ Rejected(1)) => Answered

\* C10 (as claimed): without knowledge-base id or model id every substantive request
\* ends on the echo fallback, with the caller's id or a fresh one, and no provider
\* call is made.
C10_EchoFallback ==
    (Done /\ Substantive /\ ~Configured)
    => /\ Answered
       /\ result[1].reply = (IF language = "es" THEN "Dijiste: " ELSE "You said: ") \o message
       /\ result[1].conversationId \in
            (IF Truthy(req.conversationId) THEN {req.conversationId} ELSE new_conversation_id)
       /\ calls = <<>>

\* The reply call_model_simple owes for the outcomes recorded: the stripped text of a
\* returned call when it is not blank, else the canned short greeting.
DirectModelReply ==
    IF /\ Len(responses) = 1
       /\ responses[1].kind = "ok"
       /\ responses[1].text # None
       /\ strip(responses[1].text[1]) # ""
    THEN strip(responses[1].text[1])
    ELSE IF language = "es" THEN "Hola, ¿en qué puedo ayudarte?" ELSE "Hi! How can I help?"

\* The greeting is answered by the direct-model operation and nothing else: the one
\* provider call, if a model is configured, is invoke_model with the greeting prompt,
\* and the request ends with a normal result whose reply is the model's stripped text
\* or, after a provider error or a blank text, the canned short greeting.
GreetingByDirectModel ==
    /\ Answered
    /\ Len(calls) = (IF simple_model_id = "" THEN 0 ELSE 1)
    /\ \A i \in 1..Len(calls) :
         /\ calls[i].op = "invoke_model"
         /\ calls[i].prompt = build_greeting_prompt(message, language)
    /\ Len(responses) = Len(calls)
    /\ result[1].reply = DirectModelReply

\* C11 as stated: every request classified as a greeting, by whichever module serves
\* it, is handled by the direct-model operation with the greeting prompt and ends
\* there: after a provider error the reply is the canned short greeting, never an
\* error, and there is no refusal check or escalation.
C11_GreetingByDirectModel == (Greeting /\ Done) => GreetingByDirectModel

\* C11, amended: in chat and chat_stream a greeting is handled by call_model_simple
\* with the greeting prompt and ends there (one invoke_model call when a model is
\* configured, none otherwise; canned short greeting after any provider error or
\* blank text; never an error, no refusal check, no escalation).  The Lambda handler
\* and handle_streaming_chat answer a greeting with the fixed welcome text of
\* get_greeting_response and make no provider call.
C11_GreetingTerminal ==
    /\ (Main /\ Greeting /\ pc \in {"call_model_simple", "invoke_wait"}) => attempt = 0
    /\ (Main /\ Greeting /\ Done) => GreetingByDirectModel
    /\ (Lambda /\ Greeting /\ Done) =>
          /\ Answered
          /\ calls = <<>>
          /\ responses = <<>>
          /\ result[1].reply = get_greeting_response(language)

\* A greeting of chat or chat_stream whose invoke_model call raised, answered with the
\* canned short greeting.
C11_Witness ==
    /\ Main /\ Greeting /\ Answered
    /\ Len(calls) = 1
    /\ Failed(1)
    /\ result[1].reply = canned_greeting(language)

\* C12: a greeting allocates no conversation id: the result carries an id only when
\* the caller supplied one, and then the id returned is the caller's.
C12_GreetingIdOnlyFromCaller ==
    (Greeting /\ Answered) =>
        result[1].conversationId =
            (IF Truthy(req.conversationId) THEN req.conversationId ELSE None)

\* The result held is the one of the first call_bedrock, and its reply matches the
\* refusal detector.
FirstReplyRefused == attempt \in {1, 2} /\ result # None /\ looks_like_refusal(result[1].reply)

\* C13: chat / chat_stream, when the first retrieve-and-generate reply is detected as
\* a refusal: the second call_bedrock issues its retrieve-and-generate call with no
\* session token, whatever token the caller supplied and whatever token the provider
\* returned, and with the escalated prompt: the prompt holds the force_help line of the
\* request language, which the prompt of the first call does not hold.
C13_EscalatedCallFreshAndForced ==
    /\ (Main /\ Configured /\ pc = "refusal_check" /\ attempt = 1 /\ FirstReplyRefused) =>
          ENABLED (refusal_check /\ pc' = "call_bedrock")
    /\ (Main /\ pc = "rag_wait" /\ attempt = 2) =>
          /\ FirstReplyRefused
          /\ calls[Len(calls)].op = "retrieve_and_generate"
          /\ calls[Len(calls)].sessionId = None
          /\ Contains(calls[Len(calls)].prompt, force_line(language))
          /\ ~Contains(calls[1].prompt, force_line(language))

\* The escalated call was issued for a request whose caller supplied a token and whose
\* refused first response carried another one.
C13_Witness ==
    /\ Main /\ pc = "rag_wait" /\ attempt = 2
    /\ Truthy(req.conversationId)
    /\ RefusedAt(Len(responses))
    /\ Truthy(responses[Len(responses)].sessionId)
    /\ responses[Len(responses)].sessionId # req.conversationId
    /\ calls[1].sessionId = req.conversationId
    /\ calls[Len(calls)].sessionId = None

\* The argument of the applied function, trimmed and lower-cased.
Normalized == lower(strip(probe.text))

\* C14 as stated: each is_greeting of the repository returns True exactly for the
\* messages whose trimmed, lower-cased text equals a phrase of its greeting set, so a
\* message that only contains or starts with a greeting word is substantive.
C14_ExactMatchEverywhere ==
    /\ probe.fn = "is_greeting" => (probe.value <=> Normalized \in GreetingSet)
    /\ probe.fn = "lambda_is_greeting" => (probe.value <=> Normalized \in LambdaGreetings)

\* C14, amended: is_greeting of main.py returns True exactly for the messages whose
\* trimmed, lower-cased text equals a phrase of its set (so longer messages and
\* messages that only contain or start with a greeting word are substantive);
\* is_greeting of the Lambda handler returns True exactly for the messages whose
\* trimmed, lower-cased text is shorter than 20 characters and contains a phrase of
\* its own list as a substring.
C14_ExactInMainSubstringInLambda ==
    /\ probe.fn = "is_greeting" =>
          /\ probe.value <=> Normalized \in GreetingSet
          /\ (\A g \in GreetingSet : Len(Normalized) > Len(g)) => ~probe.value
    /\ probe.fn = "lambda_is_greeting" =>
          (probe.value <=>
              /\ Len(Normalized) < 20
              /\ \E g \in LambdaGreetings, i \in 1..Len(Normalized) :
                   /\ i + Len(g) - 1 <= Len(Normalized)
                   /\ SubSeq(Normalized, i, i + Len(g) - 1) = g)

\* is_greeting of main.py applied to a message that starts with a greeting phrase and
\* goes on: not a greeting.
C14_Witness ==
    /\ probe.fn = "is_greeting"
    /\ ~probe.value
    /\ \E g \in GreetingSet : StartsWith(Normalized, g \o " ")

\* An event sequence of the shape meta, delta*, done.
MetaDeltasDone(ev) ==
    /\ Len(ev) >= 2
    /\ ev[1].event = "meta"
    /\ ev[Len(ev)].event = "done"
    /\ \A i \in 2..(Len(ev) - 1) : ev[i].event = "delta"

\* C15: every successful response of a streaming entry point (chat_stream and the two
\* handle_streaming_chat) is one meta event, then zero or more delta events, then a
\* terminal done event.
C15_MetaDeltasDone == (Streaming /\ Answered) => MetaDeltasDone(events)

\* The payloads of the delta events of ev, concatenated in order.
RECURSIVE DeltaText(_)
DeltaText(ev) ==
    IF ev = <<>> THEN ""
    ELSE (IF Head(ev).event = "delta" THEN Head(ev).text ELSE "") \o DeltaText(Tail(ev))

\* t without the spaces at its end.
RECURSIVE StripTrailingSpaces(_)
StripTrailingSpaces(t) ==
    IF t # "" /\ SubSeq(t, Len(t), Len(t)) = " "
    THEN StripTrailingSpaces(SubSeq(t, 1, Len(t) - 1)) ELSE t

\* C16: streaming round trip: for every reply text the payloads of the delta events,
\* concatenated in order and stripped of the trailing space the generator added, are
\* the reply text again, character for character.
C16_StreamRoundTrip ==
    probe.fn \in {"stream_reply", "sse_events", "infra_sse_events"} =>
        StripTrailingSpaces(DeltaText(probe.value)) = probe.text

\* The current request has no message, or one that is empty or only whitespace.
BlankRequest == endpoint # "" /\ strip(message_of(req.message)) = ""

CaseEq(a, b) ==
    (IF a \in DOMAIN UpperMap THEN UpperMap[a] ELSE a) = (IF b \in DOMAIN UpperMap THEN UpperMap[b] ELSE b)

\* t holds the phrase p somewhere, in any mix of capitals and small letters.
ContainsAnyCase(t, p) ==
    \E i \in 1..(Len(t) - Len(p) + 1) :
        \A k \in 1..Len(p) : CaseEq(SubSeq(t, i + k - 1, i + k - 1), SubSeq(p, k, k))

\* C19: looks_like_refusal(text) is True for every text that holds a phrase of the
\* list as a substring, in any letter case and with any text around it, and False for
\* every text that holds none.
C19_RefusalIffPhrase ==
    probe.fn = "looks_like_refusal" =>
        (probe.value <=> \E p \in RefusalPatterns : ContainsAnyCase(probe.text, p))

\* The detector matched a text that holds a phrase in capitals only, inside other text.
C19_Witness ==
    /\ probe.fn = "looks_like_refusal"
    /\ probe.value
    /\ \A p \in RefusalPatterns : ~Contains(probe.text, p)
    /\ \E p \in RefusalPatterns : Contains(probe.text, upper(p)) /\ Len(probe.text) > Len(p) + 8

\* The three section headings of a language.
Headings(lang) ==
    IF lang = "es" THEN {"Resumen:", "Recomendaciones:", "Siguientes preguntas:"}
    ELSE {"Summary:", "Recommendations:", "Next questions:"}

PromptBuilders ==
    {"build_prompt", "build_greeting_prompt", "build_general_fallback_prompt",
     "lambda_build_prompt", "infra_build_prompt"}

\* C20: for every message, language and mode (greeting, default and escalated
\* knowledge-base prompt, general fallback; the two Lambda builders as well) the prompt
\* holds the trimmed message character for character and the three section headings
\* of the language.
C20_PromptHoldsMessageAndHeadings ==
    probe.fn \in PromptBuilders =>
        /\ Contains(probe.value, strip(probe.text))
        /\ \A h \in Headings(probe.language) : Contains(probe.value, h)

\* A Spanish general-fallback prompt for a message with quotes, braces and a backslash.
C20_Witness ==
    /\ probe.fn = "build_general_fallback_prompt"
    /\ probe.language = "es"
    /\ Contains(probe.text, "{message} \"quoted\" \\n")
    /\ Contains(probe.value, "Pregunta del usuario: " \o strip(probe.text) \o "\n")

\* What the current request does when it is the only request its process ever handles
\* (no cached account id), from its own message, language, conversation id, the
\* configuration, and the outcomes its calls received so far.
AloneFirstCall ==
    IF Main
    THEN IF is_greeting(message)
         THEN Call("invoke_model", build_greeting_prompt(message, language), simple_model_id, None)
         ELSE Call("retrieve_and_generate", build_prompt(message, language, FALSE, "default"),
                   main_model_arn,
                   IF Truthy(req.conversationId) THEN req.conversationId ELSE None)
    ELSE Call("retrieve_and_generate", lambda_build_prompt(message, language),
              get_model_arn(env.model_id, Region,
                            IF endpoint = "handler" \/ sts = "ok" THEN AccountId ELSE "",
                            IF endpoint = "handler" THEN env.model_arn ELSE ""),
              IF Truthy(req.conversationId) THEN req.conversationId ELSE None)

\* The i-th call: the first call, its session-less retry after an invalid-session
\* error, the escalated retrieve-and-generate call, the general-fallback call.
AloneCall(i) ==
    IF i = 1 THEN AloneFirstCall
    ELSE IF i = 2 /\ Rejected(1) THEN [AloneFirstCall EXCEPT !.sessionId = None]
    ELSE IF i = (IF Rejected(1) THEN 3 ELSE 2)
    THEN Call("retrieve_and_generate", build_prompt(message, language, TRUE, "default"),
              main_model_arn, None)
    ELSE Call("invoke_model", build_general_fallback_prompt(message, language),
              simple_model_id, None)

\* The reply owed for the outcome of the last call.
AloneReply ==
    LET last == responses[Len(responses)]
    IN  IF calls[Len(calls)].op = "invoke_model"
        THEN IF last.kind = "ok" /\ last.text # None /\ strip(last.text[1]) # ""
             THEN strip(last.text[1])
             ELSE IF language = "es" THEN "Hola, ¿en qué puedo ayudarte?" ELSE "Hi! How can I help?"
        ELSE IF last.kind = "ok"
             THEN IF Truthy(last.text) THEN last.text[1]
                  ELSE IF language = "es" THEN "No tengo respuesta." ELSE "No answer."
             ELSE (IF language = "es" THEN "Dijiste: " ELSE "You said: ") \o message

\* A provider call of the current request has just been issued.
CallIssued == pc \in {"rag_wait", "rag_retry_wait", "invoke_wait", "lambda_rag_wait", "lambda_retry_wait"}

\* C17 as stated: requests are independent: whatever other requests the process
\* handles before or in between, every provider call of a request (operation, prompt,
\* session token, model reference) and its reply are those of the request run alone
\* with the same outcomes.
C17_SameAsAlone ==
    /\ CallIssued => calls[Len(calls)] = AloneCall(Len(calls))
    /\ (Answered /\ responses # <<>>) => result[1].reply = AloneReply

\* C17, amended: requests of chat and chat_stream are independent under every
\* interleaving: each call and the reply are those of the request run alone.  The
\* Lambda module keeps the account id in a module global that one request writes and
\* later requests read: there a call is the one of the request run alone except that
\* its model reference may carry the cached account id instead of the outcome of the
\* request's own lookup.
C17_IndependentButForAccountCache ==
    /\ (CallIssued /\ Main) => calls[Len(calls)] = AloneCall(Len(calls))
    /\ (CallIssued /\ Lambda) =>
          \/ calls[Len(calls)] = AloneCall(Len(calls))
          \/ /\ account_id_cache = Some(AccountId)
             /\ calls[Len(calls)] =
                  [AloneCall(Len(calls)) EXCEPT
                     !.modelArn = get_model_arn(env.model_id, Region, AccountId,
                                                IF endpoint = "handler" THEN env.model_arn ELSE "")]
    /\ (Answered /\ responses # <<>>) => result[1].reply = AloneReply

\* The escalated call of one chat request was issued while another chat request, a
\* greeting, waits for invoke_model.
C17_Witness ==
    /\ endpoint = "chat" /\ pc = "rag_wait" /\ attempt = 2
    /\ parked[1] = "chat" /\ parked[5] = "invoke_wait"
    /\ parked[3] # message
    /\ calls[Len(calls)] = AloneCall(Len(calls))

----------------------------------------------------------------------------
\* A request is being handled: its handler has been entered and has not returned.
InFlight == pc \notin {"idle", "done"}

\* The response of a finished request: a {conversationId, reply} result, or an error
\* response.
Terminal ==
    \/ Answered
    \/ status \in {400, 500} /\ error # ""
    \/ status = 200 /\ error = "Streaming failed" /\ events = <<Event("error", None, "Streaming failed")>>

\* C21: when every provider call eventually returns or raises, every request that
\* is being handled eventually ends, whatever the provider's outcomes are; it ends in
\* a result or an error response; and within a request the tier of the ladder
\* (attempt 1, attempt 2, general fallback) only moves forward.
C21_EveryRequestTerminates ==
    /\ InFlight ~> Done
    /\ [](Done => Terminal)
    /\ [][(pc # "idle" /\ pc' # "idle") => attempt' >= attempt]_vars
    /\ [][Advance => Progress]_vars

\* C21 witness: a request that went through every tier (first call rejected as an
\* invalid session, retry refused, second attempt refused, direct-model call failed)
\* and ended.
C21_Witness ==
    /\ Done /\ Main /\ attempt = 3
    /\ Len(calls) = 4 /\ Rejected(1) /\ RefusedAt(2) /\ RefusedAt(3) /\ Failed(4)
    /\ Terminal

\* The reply call_bedrock returns for the i-th outcome recorded: the output text or its
\* substitute, or the echo reply after an exception that is not a ClientError.
ReplyOf(i) ==
    IF responses[i].kind = "ok"
    THEN IF Truthy(responses[i].text) THEN responses[i].text[1]
         ELSE IF language = "es" THEN "No tengo respuesta." ELSE "No answer."
    ELSE (IF language = "es" THEN "Dijiste: " ELSE "You said: ") \o message

\* Index of the outcome that ended the first call_bedrock: the outcome of the
\* session-less retry when the first call was rejected as an invalid session.
FirstIdx == IF Rejected(1) THEN 2 ELSE 1

\* The k-th call_bedrock (k = 1, 2) has returned a result to chat, and its reply
\* matches the refusal detector.
AttemptRefused(k) ==
    IF Configured
    THEN LET i == FirstIdx + k - 1
         IN  /\ Len(responses) >= i
             /\ responses[i].kind \in {"ok", "error"}
             /\ looks_like_refusal(ReplyOf(i))
    ELSE looks_like_refusal((IF language = "es" THEN "Dijiste: " ELSE "You said: ") \o message)

\* C22: the second call_bedrock is entered, and its retrieve-and-generate call issued,
\* only after the first has returned a reply that matches the refusal detector; the
\* general fallback is entered, and its invoke_model call issued, only after the
\* second has returned a reply that matches it too; and a provider call is issued only
\* when every earlier call of the request has returned, so that at most one call is
\* outstanding (in every handler).
C22_SequentialAndGated ==
    /\ (Main /\ attempt >= 2) => AttemptRefused(1)
    /\ (Main /\ attempt = 3) => AttemptRefused(2)
    /\ (Main /\ attempt = 2 /\ pc = "rag_wait") =>
          /\ Len(calls) = FirstIdx + 1
          /\ Len(responses) = FirstIdx
    /\ (Main /\ attempt = 3 /\ pc = "invoke_wait") =>
          /\ calls[Len(calls)].op = "invoke_model"
          /\ Len(calls) = (IF Configured THEN FirstIdx + 2 ELSE 1)
    /\ Len(calls) = Len(responses) + (IF CallIssued \/ pc = "infra_rag_wait" THEN 1 ELSE 0)

\* C22 witness: the general-fallback call is outstanding after two refused
\* retrieve-and-generate replies, the first of them obtained by the session-less
\* retry.
C22_Witness ==
    /\ Main /\ Configured /\ attempt = 3 /\ pc = "invoke_wait"
    /\ Rejected(1) /\ RefusedAt(2) /\ RefusedAt(3)
    /\ Len(calls) = 4 /\ Len(responses) = 3

\* The i-th provider call raised.
Errored(i) == i <= Len(responses) /\ responses[i].kind # "ok"

\* The text of the exception of the i-th call holds both phrases of the
\* invalid-session signature.
HasSignature(i) ==
    /\ Contains(responses[i].text[1], "Session with Id")
    /\ Contains(responses[i].text[1], "is not valid")

\* The call after the i-th one repeats it: the same operation with the same prompt
\* (the calls of a later tier carry another prompt).
Repeated(i) ==
    /\ Len(calls) > i
    /\ calls[i + 1].op = calls[i].op
    /\ calls[i + 1].prompt = calls[i].prompt

\* The i-th call is the session-less repetition of a call rejected as an invalid
\* session.
IsRetry(i) == i > 1 /\ Rejected(i - 1)

\* C23: a retrieve-and-generate call that raised is repeated only when the text of
\* the exception holds both "Session with Id" and "is not valid", and then once,
\* without the session token.  After any other exception the attempt makes no further
\* call: a ClientError ends the request with an error response (as does every
\* exception in the Lambda handlers, and every exception of the repeated call), any
\* other exception makes call_bedrock return the echo reply.
C23_OnlyInvalidSessionRetried ==
    \A i \in 1..Len(responses) :
        (Errored(i) /\ calls[i].op = "retrieve_and_generate") =>
            /\ Repeated(i) =>
                  /\ HasSignature(i)
                  /\ Truthy(calls[i].sessionId)
                  /\ calls[i + 1] = [calls[i] EXCEPT !.sessionId = None]
                  /\ i = 1
            /\ (~HasSignature(i) /\ (~Main \/ responses[i].kind = "client_error" \/ IsRetry(i))) =>
                  /\ Len(calls) = i
                  /\ pc = "done"
                  /\ ~Answered
            /\ (~HasSignature(i) /\ Main /\ responses[i].kind = "error" /\ ~IsRetry(i)
                  /\ Len(responses) = i) =>
                  /\ ~Repeated(i)
                  /\ result # None
                  /\ result[1].reply = (IF language = "es" THEN "Dijiste: " ELSE "You said: ") \o message

\* C23 witness: a call that carried the caller's session raised a ClientError whose
\* text holds "Session with Id" but not "is not valid"; it was not repeated and the
\* request ended with status 500.
C23_Witness ==
    /\ Main /\ pc = "done" /\ status = 500
    /\ Len(calls) = 1 /\ Len(responses) = 1
    /\ Truthy(calls[1].sessionId)
    /\ responses[1].kind = "client_error"
    /\ Contains(responses[1].text[1], "Session with Id")
    /\ ~Contains(responses[1].text[1], "is not valid")

\* C24 (as claimed): in every handler that issues retrieve-and-generate, the request
\* carries the session field exactly when the caller supplied a non-empty
\* conversationId for that attempt, and it is sent with the field left out when the
\* caller supplied none (the repeated call and the escalated call are given no
\* conversation id, and carry none).
C24_SessionIffCallerId ==
    (Substantive /\ Configured /\ (Done \/ CallIssued \/ pc = "infra_rag_wait")) =>
        /\ calls # <<>>
        /\ calls[1].op = "retrieve_and_generate"
        /\ calls[1].sessionId = (IF Truthy(req.conversationId) THEN req.conversationId ELSE None)
        /\ \A i \in 2..Len(calls) : calls[i].sessionId = None

\* The first provider call the buffered endpoint of the module that serves the current
\* request (chat, handler) issues for the request's message, language and
\* conversationId under the configuration of the process.  handler reads the account
\* off its Lambda context and passes the ARN override on.
BufferedFirstCall ==
    IF Main THEN AloneFirstCall
    ELSE IF Lambda
    THEN Call("retrieve_and_generate", lambda_build_prompt(message, language),
              get_model_arn(env.model_id, Region, AccountId, env.model_arn),
              IF Truthy(req.conversationId) THEN req.conversationId ELSE None)
    ELSE Call("retrieve_and_generate", infra_build_prompt(message, language),
              IF env.model_arn # "" THEN env.model_arn
              ELSE "arn:aws:bedrock:" \o Region \o "::foundation-model/" \o env.model_id,
              req.conversationId)

\* Its i-th call, for the outcomes recorded so far.  Without knowledge base or model
\* id call_bedrock makes no call, and the only call of chat is the general fallback.
BufferedCall(i) ==
    IF Main /\ ~Greeting /\ ~Configured
    THEN Call("invoke_model", build_general_fallback_prompt(message, language), simple_model_id, None)
    ELSE IF i = 1 THEN BufferedFirstCall
    ELSE IF i = 2 /\ Rejected(1) THEN [BufferedFirstCall EXCEPT !.sessionId = None]
    ELSE AloneCall(i)

\* The texts of the delta events of ev, in order.
DeltaWords(ev) ==
    LET d == SelectSeq(ev, LAMBDA e : e.event = "delta")
    IN  [i \in 1..Len(d) |-> d[i].text]

\* C25 (as claimed): the streaming endpoint of a module is the orchestration of its
\* buffered endpoint: for the same message, conversationId, language, configuration
\* and provider responses every provider call it issues (operation, prompt, session
\* token, model reference) is the call the buffered endpoint issues, and its meta
\* event carries the conversationId and its delta events the words of the reply of
\* the result.
C25_StreamingAsBuffered ==
    /\ (Streaming /\ (CallIssued \/ pc = "infra_rag_wait")) =>
          calls[Len(calls)] = BufferedCall(Len(calls))
    /\ (Streaming /\ Answered) =>
          /\ events[1] = Event("meta", result[1].conversationId, "")
          /\ DeltaWords(events) = [i \in 1..Len(split(result[1].reply)) |-> split(result[1].reply)[i] \o " "]

\* The k-th call_bedrock (k = 1, 2) has returned a result to chat, and its reply does
\* not match the refusal detector.
AttemptAccepted(k) ==
    IF Configured
    THEN LET i == FirstIdx + k - 1
         IN  /\ Len(responses) >= i
             /\ calls[i].op = "retrieve_and_generate"
             /\ responses[i].kind \in {"ok", "error"}
             /\ ~looks_like_refusal(ReplyOf(i))
    ELSE ~looks_like_refusal((IF language = "es" THEN "Dijiste: " ELSE "You said: ") \o message)

\* C26: a request classified as a greeting never issues a retrieve-and-generate call,
\* and a substantive request whose first or second retrieve-and-generate reply does
\* not match the refusal detector never issues an invoke_model call and never enters
\* the general fallback.
\* (Stated by contraposition: a request with a call that is not an invoke_model call is
\* no greeting; a request with a call that is not a retrieve-and-generate call, or in
\* the general fallback, is no substantive request with an accepted reply.)
C26_OtherOperationUntouched ==
    /\ (\E i \in 1..Len(calls) : calls[i].op # "invoke_model") => ~Greeting
    /\ (\/ \E i \in 1..Len(calls) : calls[i].op # "retrieve_and_generate"
        \/ attempt = 3
        \/ pc \in {"call_model_simple", "invoke_wait"}) =>
          ~(Substantive /\ (AttemptAccepted(1) \/ AttemptAccepted(2)))

\* C26 witness: the escalated retrieve-and-generate call returned a reply that is not
\* a refusal, after a refused first reply: the request ended without a direct-model
\* call.
C26_Witness ==
    /\ Main /\ Answered /\ Configured /\ Substantive
    /\ attempt = 2
    /\ AttemptRefused(1) /\ AttemptAccepted(2)
    /\ Len(calls) = 2
    /\ result[1].reply = ReplyOf(2)

\* The request ended in an error response after a provider failure: an HTTP 500 body,
\* or an SSE error event.
ErrorResponse ==
    /\ pc = "done"
    /\ \/ status = 500
       \/ events # <<>> /\ events[1].event = "error"

\* The error payload of each entry point.  A ClientError that leaves chat or
\* chat_stream is answered by the framework.
GenericError ==
    IF Main THEN "Internal Server Error"
    ELSE IF Streaming THEN "Streaming failed"
    ELSE "Bedrock request failed."

\* C27: a request that ends in an error response carries the fixed generic string of
\* its entry point, the same for every provider error text: the payload holds neither
\* the text of an exception a provider call raised nor a result, and an SSE error
\* response is the one error event with that string.
C27_GenericErrorPayload ==
    ErrorResponse =>
        /\ error = GenericError
        /\ ~Answered
        /\ \A i \in 1..Len(responses) :
             Errored(i) => /\ ~Contains(error, responses[i].text[1])
                           /\ \A k \in 1..Len(events) : ~Contains(events[k].text, responses[i].text[1])
        /\ events # <<>> => events = <<Event("error", None, GenericError)>>

\* C27 witness: the streaming Lambda handler answered the error event after the
\* session-less retry raised, its first call having been rejected with the
\* invalid-session text.
C27_Witness ==
    /\ ErrorResponse /\ endpoint = "handle_streaming_chat"
    /\ Len(responses) = 2 /\ Rejected(1) /\ Errored(2)
    /\ Contains(responses[1].text[1], "Session with Id sess-1 is not valid")
    /\ events = <<Event("error", None, "Streaming failed")>>

\* The session id of the provider's response to the escalated (second)
\* retrieve-and-generate call, when it returned one.
Attempt2SessionIds ==
    IF /\ Configured
       /\ Len(responses) >= FirstIdx + 1
       /\ responses[FirstIdx + 1].kind = "ok"
       /\ Truthy(responses[FirstIdx + 1].sessionId)
    THEN {responses[FirstIdx + 1].sessionId}
    ELSE {}

\* C28 (as claimed): chat / chat_stream, once the first reply has been detected as a
\* refusal: no later provider call of the request carries a session token (so the
\* caller's conversationId is not sent again), and the conversationId returned is the
\* session id of the response to the second retrieve-and-generate call or a freshly
\* minted one (so it is the caller's only when the provider assigned that id).
C28_IdAfterEscalation ==
    (Main /\ attempt >= 2) =>
        /\ \A i \in (FirstIdx + 1)..Len(calls) : calls[i].sessionId = None
        /\ Answered => result[1].conversationId \in Attempt2SessionIds \cup new_conversation_id

----------------------------------------------------------------------------
(* get_account_id, statement by statement, with the calls of several       *)
(* callers in progress at once.  _account_id_cache is a module global: a   *)
(* call reads it at line 18, assigns it at line 22 or 28 and reads it      *)
(* again to return at line 23 or 29, and the steps of another call may     *)
(* fall between any two of these.                                          *)

AccountCall(c, pos, fields) ==
    /\ account_calls[c].pc \in pos
    /\ account_calls' = [account_calls EXCEPT ![c] = fields]
    /\ UNCHANGED <<env, served, sts, parked, probe, endpoint, req, message, language, pc,
                   attempt, conversation_id, force_help, mode, calls, responses, result,
                   status, error, events>>

\* handler line 224 get_account_id(_context) and handle_streaming_chat line 349
\* get_account_id(): a call begins, with or without a Lambda context.
get_account_id_call(c) ==
    \E has_context \in BOOLEAN :
        /\ AccountCall(c, {"out", "returned"},
                       [NoCall EXCEPT !.pc = "if_cache", !.has_context = has_context,
                                      !.cached_on_entry = Truthy(account_id_cache)])
        /\ UNCHANGED account_id_cache

\* The same step without the test of the cache: every call resolves the id again.
get_account_id_if_cache_skipped(c) ==
    /\ AccountCall(c, {"if_cache"},
                   [account_calls[c] EXCEPT
                       !.pc = IF account_calls[c].has_context THEN "assign_context" ELSE "sts"])
    /\ UNCHANGED account_id_cache

\* lines 18-21: if _account_id_cache: return _account_id_cache; otherwise on to the
\* context (line 21) or to STS (line 26).
get_account_id_if_cache(c) ==
    /\ AccountCall(c, {"if_cache"},
                   IF Truthy(account_id_cache)
                   THEN [account_calls[c] EXCEPT !.pc = "returned",
                                                 !.value = Some(account_id_cache[1])]
                   ELSE [account_calls[c] EXCEPT
                            !.pc = IF account_calls[c].has_context
                                   THEN "assign_context" ELSE "sts"])
    /\ UNCHANGED account_id_cache

\* line 22: _account_id_cache = context.invoked_function_arn.split(":")[4]
get_account_id_assign_context(c) ==
    /\ AccountCall(c, {"assign_context"},
                   [account_calls[c] EXCEPT !.pc = "return_cache", !.wrote = TRUE])
    /\ account_id_cache' = Some(AccountId)

\* lines 26-31: sts.get_caller_identity() answers, or raises and the call returns "".
get_caller_identity(c) ==
    \E caller_identity \in {"ok", "failed"} :
        /\ AccountCall(c, {"sts"},
                       IF caller_identity = "ok"
                       THEN [account_calls[c] EXCEPT !.pc = "assign_sts", !.sts = "ok"]
                       ELSE [account_calls[c] EXCEPT !.pc = "returned", !.sts = "failed",
                                                     !.value = Some("")])
        /\ UNCHANGED account_id_cache

\* line 28: _account_id_cache = ...['Account']
get_account_id_assign_sts(c) ==
    /\ AccountCall(c, {"assign_sts"},
                   [account_calls[c] EXCEPT !.pc = "return_cache", !.wrote = TRUE])
    /\ account_id_cache' = Some(AccountId)

\* lines 23 and 29: return _account_id_cache
get_account_id_return(c) ==
    /\ AccountCall(c, {"return_cache"},
                   [account_calls[c] EXCEPT !.pc = "returned",
                                            !.value = Some(account_id_cache[1])])
    /\ UNCHANGED account_id_cache

AccountNext ==
    \E c \in Callers :
        \/ get_account_id_call(c)
        \/ get_account_id_if_cache(c)
        \/ get_account_id_assign_context(c)
        \/ get_caller_identity(c)
        \/ get_account_id_assign_sts(c)
        \/ get_account_id_return(c)

AccountInit ==
    /\ env = [kb_id |-> "", model_id |-> "", model_arn |-> ""]
    /\ Fresh
    /\ probe = NoProbe

AccountSpec == AccountInit /\ [][AccountNext]_vars

\* C29: the account-id cache is write-once.  It never holds anything but the account
\* id, and once it holds it no step changes it.  A call of get_account_id that begins
\* when the cache holds an id goes from the test of the cache straight to its return,
\* returns the cached id and assigns nothing.  A call whose STS lookup fails returns
\* "" and assigns nothing, and the failing lookup leaves the cache as it was.  All of
\* it under any interleaving of the statements of concurrent calls, with or without a
\* Lambda context.
C29_CacheWriteOnce ==
    /\ [](account_id_cache \in {None, Some(AccountId)})
    /\ [][Truthy(account_id_cache) => account_id_cache' = account_id_cache]_vars
    /\ [](\A c \in Callers :
            account_calls[c].cached_on_entry =>
                /\ account_calls[c].pc \in {"if_cache", "returned"}
                /\ ~account_calls[c].wrote
                /\ account_calls[c].pc = "returned" =>
                       /\ account_calls[c].value = account_id_cache
                       /\ account_calls[c].value # Some(""))
    /\ [](\A c \in Callers :
            account_calls[c].sts = "failed" =>
                /\ account_calls[c].pc = "returned"
                /\ account_calls[c].value = Some("")
                /\ ~account_calls[c].wrote)
    /\ [][\A c \in Callers :
            (account_calls'[c].sts = "failed" /\ account_calls[c].sts # "failed")
                => account_id_cache' = account_id_cache]_vars
    /\ [](\A c \in Callers :
            (account_calls[c].pc = "returned" /\ account_calls[c].sts # "failed")
                => account_calls[c].value = Some(AccountId))

\* One caller filled the cache from its Lambda context; a later call without a context
\* returned the cached id without asking STS, and another call's STS lookup failed.
C29_Witness ==
    \E c, d \in Callers :
        /\ c # d
        /\ account_id_cache = Some(AccountId)
        /\ account_calls[c].pc = "returned"
        /\ account_calls[c].cached_on_entry
        /\ ~account_calls[c].has_context
        /\ account_calls[c].value = Some(AccountId)
        /\ account_calls[d].pc = "returned"
        /\ account_calls[d].sts = "failed"

====
